---------------------------- MODULE Spec2Model ----------------------------
(***************************************************************************)
(* Servio: a control plane that installs systemd units and nginx sites.   *)
(*                                                                         *)
(* The module holds these specifications over one set of variables:      *)
(*   SpecSite     the nginx site manager (internal/nginx/manager.go)      *)
(*   SpecUnit     the unit installer (internal/systemd/generator.go)      *)
(*   Spec         the create and delete handlers over store and unit      *)
(*                installer (internal/http/handlers.go)                   *)
(*   SpecUpdate   the update handlers                                     *)
(*   SpecAction   the install and provision actions                       *)
(*   SpecStream   the journal log stream and its consumer                 *)
(*   SpecStats    the CPU share of the monitor                            *)
(*   SpecStore    the store under concurrently served requests            *)
(*                (internal/storage/repository.go)                        *)
(*   SpecMigrate  a database file opened, used and opened again           *)
(*                (internal/storage/db.go)                                *)
(*   SpecGen      GenerateServiceFile over service records                *)
(*   SpecPreview  the site preview of a stored project                    *)
(*   SpecParallel getLinuxServiceStats run by parallel goroutines         *)
(*   SpecProject  the mutators of a project row                            *)
(*   SpecLifecycle services created, renamed and deleted, no call failing  *)
(*   SpecRace     a project delete and a service create, step by step      *)
(*   SpecSiteRace two InstallSite calls, step by step                      *)
(*   SpecDeploy   the site deployed and removed, the project renamed and   *)
(*                deleted                                                  *)
(*   SpecDelivery the lines of the journal up to the frames of the response*)
(* A handler or manager call is one action.  Every external step whose    *)
(* error the code branches on (mkdir, write, symlink, nginx -t, reload,   *)
(* id -u, stat, remove, systemctl) gets its outcome from the environment; *)
(* the steps a call executed are recorded, in order, in its trace.        *)
(***************************************************************************)
EXTENDS Integers, Sequences, FiniteSets, TLC

VARIABLES
    mgr,        \* nginx.Manager: sitesAvailableDir, sitesEnabledDir
    siteFiles,  \* files below the nginx site directories: path -> content
    unitFiles,  \* files below /etc/systemd/system: path -> content
    dirs,       \* the directories that exist on the host
    projects,   \* table projects: id -> row
    services,   \* table services: id -> row
    nextID,     \* the next AUTOINCREMENT id of table services
    db,         \* the database file and its handle: tables, indexes, legacy rows,
                \* the AUTOINCREMENT sequence of projects, the pooled connections
    settings,   \* table settings: key -> value
    stream,     \* one log stream: context, subprocess, pipe, channel, goroutines
    cpuCache,   \* monitor cache: unit -> last cumulative CPU ns and time
    call,       \* the last manager call or HTTP request, with its trace
    ops         \* number of calls or requests made so far

vars == <<mgr, siteFiles, unitFiles, dirs, projects, services, nextID, db, settings,
          stream, cpuCache, call, ops>>
dbVars == <<db, settings>>
procVars == <<stream, cpuCache>>
siteVars == <<mgr, siteFiles>>
unitVars == <<unitFiles, dirs>>
storeVars == <<projects, services, nextID>>

-----------------------------------------------------------------------------
(* Bounds *)

MaxProjectID == 2
MaxSiteOps == 3

-----------------------------------------------------------------------------
(* Generic helpers *)

Range(s) == {s[i] : i \in 1..Len(s)}

\* The position of the first occurrence of x in s, 0 when absent.
IndexOf(s, x) ==
    IF x \in Range(s) THEN CHOOSE i \in 1..Len(s) : s[i] = x /\ \A j \in 1..(i - 1) : s[j] # x
    ELSE 0

\* x occurs in s, and before the first y.
Before(s, x, y) == IndexOf(s, x) > 0 /\ IndexOf(s, y) > 0 /\ IndexOf(s, x) < IndexOf(s, y)

Count(s, x) == Cardinality({i \in 1..Len(s) : s[i] = x})

\* A file system: a function from the paths that exist to their content.
WriteFile(files, path, content) ==
    [p \in (DOMAIN files) \cup {path} |-> IF p = path THEN content ELSE files[p]]

RemoveFile(files, path) ==
    [p \in (DOMAIN files) \ {path} |-> files[p]]

\* The empty file system; also the empty table.
NoFiles == [p \in {} |-> ""]

NoCall == [op |-> "none"]

-----------------------------------------------------------------------------
(* internal/storage/db.go: the schema and its migration *)

LegacyColumns ==
    {"id", "name", "description", "git_repo_url", "command", "working_dir", "user",
     "environment", "auto_restart", "created_at", "updated_at"}

\* CREATE TABLE projects / services / settings of the v2 schema text.
ProjectsColumns == {"id", "name", "description", "created_at", "updated_at"}

ServicesColumns ==
    {"id", "project_id", "name", "type", "version", "git_repo_url", "command",
     "working_dir", "user", "environment", "auto_restart", "config", "systemd_raw",
     "nginx_raw", "created_at", "updated_at"}

SettingsColumns == {"key", "value"}

\* The columns the statements of repository.go name.
CreateProjectColumns == {"name", "description", "domain"}

CreateServiceColumns ==
    {"project_id", "name", "type", "version", "port", "git_repo_url", "command",
     "working_dir", "user", "environment", "auto_restart", "config", "systemd_raw",
     "nginx_raw"}

\* A database file that does not exist yet.  seq is the sqlite_sequence entry
\* of table projects; conns holds, for each connection of the handle's pool,
\* whether PRAGMA foreign_keys = ON was executed on it.
EmptyDB ==
    [tables |-> NoFiles, indexes |-> {}, legacy |-> NoFiles, open |-> FALSE,
     seq |-> 0, conns |-> <<>>]

\* A database file left by the first version: one flat projects table.
V1DB ==
    [tables |-> WriteFile(NoFiles, "projects", LegacyColumns),
     indexes |-> {"idx_projects_name"}, legacy |-> NoFiles, open |-> FALSE,
     seq |-> 0, conns |-> <<>>]

\* CREATE TABLE name (...), without IF NOT EXISTS.
CreateTable(d, name, columns) ==
    IF d.err # "" THEN d
    ELSE IF name \in DOMAIN d.db.tables
    THEN [d EXCEPT !.err = "table already exists"]
    ELSE [d EXCEPT !.db.tables = WriteFile(@, name, columns)]

\* CREATE INDEX name ON ..., without IF NOT EXISTS.
CreateIndex(d, name) ==
    IF d.err # "" THEN d
    ELSE IF name \in d.db.indexes
    THEN [d EXCEPT !.err = "index already exists"]
    ELSE [d EXCEPT !.db.indexes = @ \cup {name}]

AddColumnDropsOthers(d, table, column) ==
    IF d.err # "" THEN d
    ELSE IF table \notin DOMAIN d.db.tables
    THEN [d EXCEPT !.err = "no such table"]
    ELSE [d EXCEPT !.db.tables[table] = {column}]

\* ALTER TABLE table ADD COLUMN column; a duplicate column is not an error
\* for migrate (isColumnExistsError).
AddColumn(d, table, column) ==
    IF d.err # "" THEN d
    ELSE IF table \notin DOMAIN d.db.tables
    THEN [d EXCEPT !.err = "no such table"]
    ELSE [d EXCEPT !.db.tables[table] = @ \cup {column}]

\* ALTER TABLE projects RENAME TO projects_v1: the rows and the index go
\* with the table.
RenameProjects(d, rows) ==
    IF "projects" \notin DOMAIN d.db.tables THEN d
    ELSE IF "projects_v1" \in DOMAIN d.db.tables
    THEN [d EXCEPT !.err = "failed to rename projects table"]
    ELSE [d EXCEPT !.db.tables = WriteFile(RemoveFile(@, "projects"), "projects_v1",
                                          d.db.tables["projects"]),
                   !.db.legacy = rows, !.projects = NoFiles]

\* CREATE TABLE IF NOT EXISTS settings
CreateSettingsIfNotExists(d) ==
    IF d.err # "" \/ "settings" \in DOMAIN d.db.tables THEN d
    ELSE [d EXCEPT !.db.tables = WriteFile(@, "settings", SettingsColumns)]

\* Storage.migrate on database d0 holding rows in its projects table; the
\* statements of the schema text run one after the other and stop at the
\* first that fails.
migrate(d0, rows) ==
    LET start == [db |-> d0, projects |-> rows, err |-> ""]
    IN  IF "services" \notin DOMAIN d0.tables
        THEN CreateIndex(CreateIndex(
                 CreateTable(CreateTable(CreateTable(RenameProjects(start, rows),
                     "projects", ProjectsColumns), "services", ServicesColumns),
                     "settings", SettingsColumns),
                 "idx_services_project_id"), "idx_projects_name")
        ELSE CreateSettingsIfNotExists(
                 AddColumn(AddColumn(AddColumn(AddColumn(AddColumn(start,
                     "services", "systemd_raw"), "services", "nginx_raw"),
                     "projects", "domain"), "projects", "nginx_raw"),
                     "services", "port"))

\* storage.New: the two PRAGMAs run on the first connection of the pool, then
\* migrate; the store is handed out when migrate succeeded.
New(d0, rows) ==
    LET Migrated(m) == [m EXCEPT !.db.open = (m.err = ""),
                                 !.db.conns = IF m.err = "" THEN <<TRUE>> ELSE <<>>]
    IN  Migrated(migrate(d0, rows))

\* Storage.Close
Close(d) == [d EXCEPT !.open = FALSE, !.conns = <<>>]

\* The database after a first open of a new file and a second open.
LatestDB == Close(New(Close(New(EmptyDB, NoFiles).db), NoFiles).db)

\* The largest id of a table, 0 when it is empty.
MaxRowID(rows) ==
    IF DOMAIN rows = {} THEN 0 ELSE CHOOSE i \in DOMAIN rows : \A j \in DOMAIN rows : j <= i

\* The store of a running server whose database has all columns.
StoreOpened ==
    /\ db = [New(LatestDB, NoFiles).db EXCEPT !.seq = MaxRowID(projects)]
    /\ settings = NoFiles

\* No log stream and no monitor observation yet.
NoStream == [pc |-> "none"]

NoProcess == stream = NoStream /\ cpuCache = NoFiles

-----------------------------------------------------------------------------
(* internal/nginx/manager.go *)

LowerLetters == {"a", "b", "c", "d", "e", "f", "g", "h", "i", "j", "k", "l", "m",
                 "n", "o", "p", "q", "r", "s", "t", "u", "v", "w", "x", "y", "z"}
DigitRunes == {"0", "1", "2", "3", "4", "5", "6", "7", "8", "9"}

\* strings.ToLower on one rune, for the upper-case runes the model uses.
ToLowerRune(r) ==
    CASE r = "A" -> "a"
      [] r = "M" -> "m"
      [] r = "X" -> "x"
      [] OTHER -> r

\* strings.ReplaceAll(name, " ", "-") on one rune.
SpaceToHyphen(r) == IF r = " " THEN "-" ELSE r

KeptRuneAny(r) == TRUE

KeptRune(r) == r \in LowerLetters \cup DigitRunes \cup {"-"}

\* A name is a sequence of runes.
sanitizeName(name) ==
    SelectSeq([i \in 1..Len(name) |-> SpaceToHyphen(ToLowerRune(name[i]))], KeptRune)

\* Manager.Configure: the directories selected by the distro setting.
ConfigureDirs(distro) ==
    IF distro = "ubuntu" \/ distro = "debian"
    THEN [sitesAvailableDir |-> "/etc/nginx/sites-available",
          sitesEnabledDir |-> "/etc/nginx/sites-enabled"]
    ELSE [sitesAvailableDir |-> "/etc/nginx/conf.d", sitesEnabledDir |-> ""]

\* NewManager
NewManager == [sitesAvailableDir |-> "/etc/nginx/conf.d", sitesEnabledDir |-> ""]

DefaultPort == 8000

PrimaryPortOfFirst(svcs) == IF Len(svcs) > 0 /\ svcs[1].Port > 0 THEN svcs[1].Port ELSE DefaultPort

\* The port GenerateDefaultConfig proxies to: the first service with port > 0.
PrimaryPort(svcs) ==
    LET withPort == SelectSeq(svcs, LAMBDA sv : sv.Port > 0)
    IN IF Len(withPort) > 0 THEN withPort[1].Port ELSE DefaultPort

\* The text of the default site is represented by the values it is built of.
GenerateDefaultConfig(project) ==
    IF project.Domain = ""
    THEN [config |-> "", err |-> "project has no domain configured"]
    ELSE [config |-> [kind |-> "default", name |-> project.Name,
                      server_name |-> project.Domain,
                      proxy_port |-> PrimaryPort(project.Services)],
          err |-> ""]

GenerateSiteConfigIgnoresRaw(project) == GenerateDefaultConfig(project)

GenerateSiteConfig(project) ==
    IF project.NginxRaw # ""
    THEN [config |-> project.NginxRaw, err |-> ""]
    ELSE GenerateDefaultConfig(project)

\* filepath.Join(dir, file) is the pair <<dir, file>>.
PathJoin(dir, file) == <<dir, file>>
PathDir(path) == path[1]
PathBase(path) == path[2]

\* fmt.Sprintf("%d", n) of a positive id: its decimal digits, as runes.
RECURSIVE FormatInt(_)
FormatInt(n) ==
    LET digit == <<"0", "1", "2", "3", "4", "5", "6", "7", "8", "9">>[(n % 10) + 1]
    IN  IF n < 10 THEN <<digit>> ELSE FormatInt(n \div 10) \o <<digit>>

\* The file name is the text "servio-%d-%s.conf": the runes of the id and of
\* the sanitized name stand next to each other, parted by one hyphen.
SiteFileName(project) ==
    <<"servio-">> \o FormatInt(project.ID) \o <<"-">> \o sanitizeName(project.Name)
        \o <<".conf">>

SiteConfigPath(m, project) == PathJoin(m.sitesAvailableDir, SiteFileName(project))

SiteExists(m, files, project) == SiteConfigPath(m, project) \in DOMAIN files

\* os.Symlink(target, link)
Symlink(files, target, link) == WriteFile(files, link, [symlink |-> target])

\* The rollback of InstallSite after a failed configuration test.
RollbackSiteKeepsFile(files, configPath) == files

RollbackSite(files, configPath) == RemoveFile(files, configPath)

\* The steps of InstallSite, each of which the environment may fail.
SiteFaults == {"none", "mkdir", "write", "symlink", "test", "reload"}

\* InstallSite with the first failing step failAt: the files afterwards,
\* the steps attempted in order, and the error returned ("" for nil).
InstallSite(m, files, project, failAt) ==
    LET gen == GenerateSiteConfig(project)
        configPath == SiteConfigPath(m, project)
        useLink == m.sitesEnabledDir # ""
        enabledPath == PathJoin(m.sitesEnabledDir, PathBase(configPath))
        written == WriteFile(files, configPath, gen.config)
        unlinked == RemoveFile(written, enabledPath)
        linked == IF useLink THEN Symlink(unlinked, configPath, enabledPath) ELSE written
        linkStep == IF useLink THEN <<"symlink">> ELSE <<>>
    IN  IF gen.err # ""
        THEN [files |-> files, trace |-> <<>>, err |-> "failed to generate config"]
        ELSE IF failAt = "mkdir"
        THEN [files |-> files, trace |-> <<"mkdir">>,
              err |-> "failed to create config directory"]
        ELSE IF failAt = "write"
        THEN [files |-> files, trace |-> <<"mkdir", "write">>,
              err |-> "failed to write config"]
        ELSE IF useLink /\ failAt = "symlink"
        THEN [files |-> unlinked, trace |-> <<"mkdir", "write", "symlink">>,
              err |-> "failed to create symlink"]
        ELSE IF failAt = "test"
        THEN [files |-> RollbackSite(linked, configPath),
              trace |-> <<"mkdir", "write">> \o linkStep \o <<"test", "rollback">>,
              err |-> "nginx config test failed"]
        ELSE IF failAt = "reload"
        THEN [files |-> linked,
              trace |-> <<"mkdir", "write">> \o linkStep \o <<"test", "reload">>,
              err |-> "failed to reload nginx"]
        ELSE [files |-> linked,
              trace |-> <<"mkdir", "write">> \o linkStep \o <<"test", "reload">>,
              err |-> ""]

UninstallFaults == {"none", "remove", "reload"}

UninstallSiteStrict(m, files, project, failAt) ==
    LET configPath == SiteConfigPath(m, project)
        useLink == m.sitesEnabledDir # ""
        enabledPath == PathJoin(m.sitesEnabledDir, PathBase(configPath))
        unlinked == IF useLink THEN RemoveFile(files, enabledPath) ELSE files
        linkStep == IF useLink THEN <<"unlink">> ELSE <<>>
    IN  IF failAt = "remove" \/ configPath \notin DOMAIN unlinked
        THEN [files |-> unlinked, trace |-> linkStep \o <<"remove">>,
              err |-> "failed to remove config"]
        ELSE [files |-> RemoveFile(unlinked, configPath),
              trace |-> linkStep \o <<"remove", "reload">>,
              err |-> IF failAt = "reload" THEN "failed to reload nginx" ELSE ""]

\* UninstallSite: a missing file or symlink is not an error.
UninstallSite(m, files, project, failAt) ==
    LET configPath == SiteConfigPath(m, project)
        useLink == m.sitesEnabledDir # ""
        enabledPath == PathJoin(m.sitesEnabledDir, PathBase(configPath))
        unlinked == IF useLink THEN RemoveFile(files, enabledPath) ELSE files
        linkStep == IF useLink THEN <<"unlink">> ELSE <<>>
    IN  IF failAt = "remove" /\ configPath \in DOMAIN unlinked
        THEN [files |-> unlinked, trace |-> linkStep \o <<"remove">>,
              err |-> "failed to remove config"]
        ELSE [files |-> RemoveFile(unlinked, configPath),
              trace |-> linkStep \o <<"remove", "reload">>,
              err |-> IF failAt = "reload" THEN "failed to reload nginx" ELSE ""]

-----------------------------------------------------------------------------
(* The projects handed to the nginx manager *)

Distros == {"ubuntu", "debian", "amzn"}

SiteShapes ==
    { [Name |-> <<"M", "y", " ", "A", "p", "p", " ", "#", "1">>, Domain |-> "app.example",
       NginxRaw |-> "",
       Services |-> <<[Name |-> "api", Port |-> 0], [Name |-> "web", Port |-> 8080]>>],
      [Name |-> <<"a", "p", "i">>, Domain |-> "", NginxRaw |-> "raw site", Services |-> <<>>],
      [Name |-> <<"X">>, Domain |-> "", NginxRaw |-> "", Services |-> <<>>] }

SiteProjects ==
    { [ID |-> id, Name |-> sh.Name, Domain |-> sh.Domain, NginxRaw |-> sh.NginxRaw,
       Services |-> sh.Services] : id \in 1..MaxProjectID, sh \in SiteShapes }

InitSite ==
    /\ mgr = NewManager
    /\ siteFiles = NoFiles
    /\ call = NoCall
    /\ ops = 0
    /\ unitFiles = NoFiles
    /\ dirs = {}
    /\ projects = NoFiles
    /\ services = NoFiles
    /\ nextID = 1
    /\ StoreOpened
    /\ NoProcess

Configure(distro) ==
    /\ ops < MaxSiteOps
    /\ mgr' = ConfigureDirs(distro)
    /\ call' = [op |-> "Configure", distro |-> distro, before |-> mgr,
                installed |-> IF call.op = "InstallSite" /\ call.err = ""
                              THEN {call.project} ELSE {}]
    /\ ops' = ops + 1
    /\ UNCHANGED <<siteFiles, unitVars, storeVars, dbVars, procVars>>

\* The call before this one was a successful InstallSite of the same site.
Reinstall(project) ==
    /\ call.op = "InstallSite"
    /\ call.err = ""
    /\ SiteConfigPath(mgr, call.project) = SiteConfigPath(mgr, project)

DoInstallSite(project, failAt) ==
    LET r == InstallSite(mgr, siteFiles, project, failAt)
    IN  /\ ops < MaxSiteOps
        /\ siteFiles' = r.files
        /\ call' = [op |-> "InstallSite", project |-> project, failAt |-> failAt,
                        trace |-> r.trace, err |-> r.err, before |-> siteFiles,
                        reinstall |-> Reinstall(project)]
        /\ ops' = ops + 1
        /\ UNCHANGED <<mgr, unitVars, storeVars, dbVars, procVars>>

\* The two calls before this one were a successful InstallSite of the
\* project and a Configure that changed the directories.
Moved(project) ==
    /\ call.op = "Configure"
    /\ call.before # mgr
    /\ project \in call.installed

DoUninstallSite(project, failAt) ==
    LET r == UninstallSite(mgr, siteFiles, project, failAt)
    IN  /\ ops < MaxSiteOps
        /\ siteFiles' = r.files
        /\ call' = [op |-> "UninstallSite", project |-> project, failAt |-> failAt,
                        trace |-> r.trace, err |-> r.err, before |-> siteFiles,
                        moved |-> Moved(project)]
        /\ ops' = ops + 1
        /\ UNCHANGED <<mgr, unitVars, storeVars, dbVars, procVars>>

NextSite ==
    \/ \E distro \in Distros : Configure(distro)
    \/ \E project \in SiteProjects, failAt \in SiteFaults : DoInstallSite(project, failAt)
    \/ \E project \in SiteProjects, failAt \in UninstallFaults : DoUninstallSite(project, failAt)

SpecSite == InitSite /\ [][NextSite]_vars

-----------------------------------------------------------------------------
(* Claims about InstallSite *)

InstallSiteReturned == call.op = "InstallSite"
SymlinkLayout == mgr.sitesEnabledDir # ""
TestFailed == InstallSiteReturned /\ "test" \in Range(call.trace) /\ call.failAt = "test"
TestPassed == InstallSiteReturned /\ "test" \in Range(call.trace) /\ call.failAt # "test"

\* C1: when the configuration test fails, InstallSite returns an error, the
\* site file is not on disk and the reload was not invoked; when the test
\* passes, the reload is invoked, after the write and after the test.
C1_SafeApply ==
    /\ TestFailed =>
          /\ ~SiteExists(mgr, siteFiles, call.project)
          /\ "reload" \notin Range(call.trace)
          /\ call.err # ""
    /\ TestPassed =>
          /\ Count(call.trace, "reload") = 1
          /\ Before(call.trace, "write", "test")
          /\ Before(call.trace, "test", "reload")

\* A failed test in the symlink layout, over a site file that was there before.
C1_Witness ==
    /\ TestFailed
    /\ SymlinkLayout
    /\ SiteConfigPath(mgr, call.project) \in DOMAIN call.before

\* C2: in the symlink layout, after a failed configuration test no symlink
\* of the project is left in the enabled directory.
C2_SymlinkRemovedOnFailure ==
    (TestFailed /\ SymlinkLayout) =>
        PathJoin(mgr.sitesEnabledDir, PathBase(SiteConfigPath(mgr, call.project)))
            \notin DOMAIN siteFiles

-----------------------------------------------------------------------------
(* internal/blueprints: the registry and the Django blueprint *)

\* A string that is split or joined by the code is a sequence of its pieces:
\* a path is its segments ("/usr/bin/true" is <<"/", "usr", "bin", "true">>),
\* a command is its whitespace-separated fields, an environment its lines.

\* NewRegistry registers the Django blueprint only.
RegisteredTypes == {"django"}

RegistryGet(serviceType) == serviceType \in RegisteredTypes

djangoDefaultWorkers == 2
djangoDefaultBind == "0.0.0.0:8000"

ConfigWorkers4 == "{\"workers\":4}"
ConfigVenv == "{\"venv_path\":\"/opt/venv\"}"
ConfigPostgres == "{\"db_port\":6543,\"max_connections\":200}"

\* DjangoBlueprint.parseConfig: json.Unmarshal over the defaults.
parseConfig(service) ==
    LET defaults == [WsgiModule |-> "app.wsgi:application", Workers |-> djangoDefaultWorkers,
                     BindAddress |-> djangoDefaultBind, VenvPath |-> <<>>]
    IN  CASE service.Config = ConfigWorkers4 -> [defaults EXCEPT !.Workers = 4]
          [] service.Config = ConfigVenv -> [defaults EXCEPT !.VenvPath = <<"/", "opt", "venv">>]
          [] OTHER -> defaults

\* fmt.Sprintf("%d", n) for one digit
Itoa(n) == <<"0", "1", "2", "3", "4", "5", "6", "7", "8", "9">>[n + 1]

\* DjangoBlueprint.GenerateCommand
DjangoGenerateCommand(service) ==
    LET cfg == parseConfig(service)
        gunicornPath == IF cfg.VenvPath # <<>> THEN cfg.VenvPath \o <<"bin", "gunicorn">>
                        ELSE <<"gunicorn">>
        workers == IF cfg.Workers <= 0 THEN djangoDefaultWorkers ELSE cfg.Workers
    IN  <<gunicornPath, <<"--workers">>, <<Itoa(workers)>>, <<"--bind">>,
          <<cfg.BindAddress>>, <<cfg.WsgiModule>>>>

\* DjangoBlueprint.GenerateEnvironment; the text ends with a newline, so its
\* last line is empty.
DjangoGenerateEnvironment(service) ==
    LET cfg == parseConfig(service)
    IN  <<<<"DJANGO_SETTINGS_MODULE", "=", "app.settings">>,
          <<"PYTHONDONTWRITEBYTECODE", "=", "1">>,
          <<"PYTHONUNBUFFERED", "=", "1">>>>
        \o (IF cfg.VenvPath # <<>>
            THEN <<<<"VIRTUAL_ENV", "=", cfg.VenvPath>>, <<"PATH", "=", cfg.VenvPath, "/bin:$PATH">>>>
            ELSE <<>>)
        \o <<<<>>>>

\* DjangoBlueprint.GenerateSystemdOverrides
DjangoGenerateSystemdOverrides(service) ==
    [Type |-> "notify", KillMode |-> "mixed", TimeoutStopSec |-> 5]

-----------------------------------------------------------------------------
(* internal/storage/models.go and internal/systemd/generator.go *)

serviceDir == "/etc/systemd/system"

\* Service.ServiceName
ServiceName(service) == <<"servio-", service.Name, ".service">>

HasPrefixSlashAlways(exe) == TRUE

\* strings.HasPrefix(exe, "/")
HasPrefixSlash(exe) == Len(exe) > 0 /\ exe[1] = "/"

\* filepath.Join(workingDir, exe): joined and cleaned of "." segments.
FilepathJoin(dir, file) == SelectSeq(dir \o file, LAMBDA seg : seg # ".")

\* The Environment="..." lines: one per non-blank line that contains "=".
EnvSection(environment) ==
    SelectSeq(environment, LAMBDA line : line # <<>> /\ "=" \in Range(line))

\* The blueprint environment goes before the environment of the service.
MergeEnvironment(blueprintEnv, environment) ==
    IF blueprintEnv # <<>> /\ environment # <<>> THEN blueprintEnv \o environment
    ELSE IF blueprintEnv # <<>> THEN blueprintEnv
    ELSE environment

ResolveCommandAlways(command, workingDir, hasBlueprint) ==
    IF Len(command) > 0 /\ ~HasPrefixSlash(command[1])
    THEN <<FilepathJoin(workingDir, command[1])>> \o Tail(command)
    ELSE command

\* A relative executable of a service without blueprint is joined to the
\* working directory.
ResolveCommand(command, workingDir, hasBlueprint) ==
    IF Len(command) > 0 /\ ~HasPrefixSlash(command[1]) /\ ~hasBlueprint
    THEN <<FilepathJoin(workingDir, command[1])>> \o Tail(command)
    ELSE command

\* The unit text: the blueprint template or the simple template.
UnitSections(service, hasBlueprint, command, environment) ==
    LET restart == IF service.AutoRestart THEN "on-failure" ELSE "no"
        workingDir == IF service.WorkingDir = <<>> THEN <<"/">> ELSE service.WorkingDir
        user == IF service.User = "" THEN "root" ELSE service.User
    IN  IF hasBlueprint
        THEN [Description |-> <<"Managed Service: ", service.Name>>,
              Overrides |-> DjangoGenerateSystemdOverrides(service),
              ExecStart |-> ResolveCommand(command, workingDir, hasBlueprint),
              Restart |-> restart, RestartSec |-> 5,
              SyslogIdentifier |-> <<"servio-", service.Name>>,
              Environment |-> EnvSection(environment)]
        ELSE [Description |-> <<"Managed Service: ", service.Name>>,
              Type |-> "simple", User |-> user, WorkingDirectory |-> workingDir,
              ExecStart |-> ResolveCommand(command, workingDir, hasBlueprint),
              Restart |-> restart, RestartSec |-> 5,
              SyslogIdentifier |-> <<"servio-", service.Name>>,
              Environment |-> EnvSection(environment)]

GenerateServiceFileWithoutOverride(service) ==
    UnitSections(service, FALSE, service.Command, service.Environment)

GenerateServiceFile(service) ==
    IF service.SystemdRaw # ""
    THEN [raw |-> service.SystemdRaw]
    ELSE IF service.Type # "" /\ RegistryGet(service.Type)
    THEN UnitSections(service, TRUE,
                      IF service.Command = <<>> THEN DjangoGenerateCommand(service)
                      ELSE service.Command,
                      MergeEnvironment(DjangoGenerateEnvironment(service), service.Environment))
    ELSE UnitSections(service, FALSE, service.Command, service.Environment)

ServicePath(service) == PathJoin(serviceDir, ServiceName(service))

\* The pre-flight checks InstallService makes, in order.
NeedsUserCheckNever(service) == FALSE

NeedsUserCheck(service) == service.User # "" /\ service.User # "root"
NeedsExeCheck(service) == Len(service.Command) > 0 /\ HasPrefixSlash(service.Command[1])
NeedsWorkingDir(service) == service.WorkingDir # <<>> /\ service.WorkingDir # <<"/">>

InstallFaults == {"none", "user", "exe", "mkdir", "write", "reload"}

InstallServiceRollsBack(files, ds, service, failAt) ==
    LET userStep == IF NeedsUserCheck(service) THEN <<"user-check">> ELSE <<>>
        exeStep == IF NeedsExeCheck(service) THEN <<"exe-check">> ELSE <<>>
        dirStep == IF NeedsWorkingDir(service)
                   THEN <<"mkdir">> \o (IF NeedsUserCheck(service) THEN <<"chown">> ELSE <<>>)
                   ELSE <<>>
        content == GenerateServiceFile(service)
        madeDirs == IF NeedsWorkingDir(service) THEN ds \cup {service.WorkingDir} ELSE ds
        written == WriteFile(files, ServicePath(service), content)
    IN  IF NeedsUserCheck(service) /\ failAt = "user"
        THEN [files |-> files, dirs |-> ds, trace |-> <<"user-check">>,
              err |-> "system user does not exist"]
        ELSE IF NeedsExeCheck(service) /\ failAt = "exe"
        THEN [files |-> files, dirs |-> ds, trace |-> userStep \o <<"exe-check">>,
              err |-> "executable not found on server"]
        ELSE IF NeedsWorkingDir(service) /\ failAt = "mkdir"
        THEN [files |-> files, dirs |-> ds,
              trace |-> userStep \o exeStep \o <<"generate", "mkdir">>,
              err |-> "failed to create working directory"]
        ELSE IF failAt = "write"
        THEN [files |-> files, dirs |-> madeDirs,
              trace |-> userStep \o exeStep \o <<"generate">> \o dirStep \o <<"write">>,
              err |-> "failed to write service file"]
        ELSE [files |-> IF failAt = "reload" THEN files ELSE written, dirs |-> madeDirs,
              trace |-> userStep \o exeStep \o <<"generate">> \o dirStep
                        \o <<"write", "reload">>,
              err |-> IF failAt = "reload" THEN "failed to reload systemd" ELSE ""]

\* InstallService with the first failing step failAt: files and directories
\* afterwards, the steps attempted in order, and the error returned.
InstallService(files, ds, service, failAt) ==
    LET userStep == IF NeedsUserCheck(service) THEN <<"user-check">> ELSE <<>>
        exeStep == IF NeedsExeCheck(service) THEN <<"exe-check">> ELSE <<>>
        dirStep == IF NeedsWorkingDir(service)
                   THEN <<"mkdir">> \o (IF NeedsUserCheck(service) THEN <<"chown">> ELSE <<>>)
                   ELSE <<>>
        content == GenerateServiceFile(service)
        madeDirs == IF NeedsWorkingDir(service) THEN ds \cup {service.WorkingDir} ELSE ds
        written == WriteFile(files, ServicePath(service), content)
    IN  IF NeedsUserCheck(service) /\ failAt = "user"
        THEN [files |-> files, dirs |-> ds, trace |-> <<"user-check">>,
              err |-> "system user does not exist"]
        ELSE IF NeedsExeCheck(service) /\ failAt = "exe"
        THEN [files |-> files, dirs |-> ds, trace |-> userStep \o <<"exe-check">>,
              err |-> "executable not found on server"]
        ELSE IF NeedsWorkingDir(service) /\ failAt = "mkdir"
        THEN [files |-> files, dirs |-> ds,
              trace |-> userStep \o exeStep \o <<"generate", "mkdir">>,
              err |-> "failed to create working directory"]
        ELSE IF failAt = "write"
        THEN [files |-> files, dirs |-> madeDirs,
              trace |-> userStep \o exeStep \o <<"generate">> \o dirStep \o <<"write">>,
              err |-> "failed to write service file"]
        ELSE [files |-> written, dirs |-> madeDirs,
              trace |-> userStep \o exeStep \o <<"generate">> \o dirStep
                        \o <<"write", "reload">>,
              err |-> IF failAt = "reload" THEN "failed to reload systemd" ELSE ""]

\* The outcomes of the steps of UninstallService: systemctl stop and
\* disable, os.Remove failing with an error other than not-found, and reload.
UninstallEnvs ==
    { e \in [stopOk : BOOLEAN, disableOk : BOOLEAN, removeOk : BOOLEAN, reloadOk : BOOLEAN] :
        ~e.removeOk => e.reloadOk }

UninstallService(files, serviceName, env) ==
    LET servicePath == PathJoin(serviceDir, serviceName)
    IN  IF ~env.removeOk /\ servicePath \in DOMAIN files
        THEN [files |-> files, trace |-> <<"stop", "disable", "remove">>,
              err |-> "failed to remove service file"]
        ELSE [files |-> RemoveFile(files, servicePath),
              trace |-> <<"stop", "disable", "remove", "reload">>,
              err |-> IF env.reloadOk THEN "" ELSE "daemon-reload failed"]

ServiceExists(files, serviceName) == PathJoin(serviceDir, serviceName) \in DOMAIN files

-----------------------------------------------------------------------------
(* The services handed to the unit installer *)

ServiceNames == {"web", "db"}

UnitShapes ==
    { [Type |-> "custom", Command |-> <<<<"/", "usr", "bin", "true">>>>, WorkingDir |-> <<>>,
       User |-> "root", Environment |-> <<>>, AutoRestart |-> FALSE, Config |-> "",
       SystemdRaw |-> ""],
      [Type |-> "custom", Command |-> <<<<".", "run.sh">>, <<"--port">>, <<"8080">>>>,
       WorkingDir |-> <<"/", "srv", "app">>, User |-> "app",
       Environment |-> <<<<"KEY", "=", "value">>, <<>>, <<"junk">>>>, AutoRestart |-> TRUE,
       Config |-> "", SystemdRaw |-> ""],
      [Type |-> "django", Command |-> <<>>, WorkingDir |-> <<"/", "var", "www", "app">>,
       User |-> "www-data", Environment |-> <<<<"DEBUG", "=", "0">>>>, AutoRestart |-> TRUE,
       Config |-> ConfigWorkers4, SystemdRaw |-> ""],
      [Type |-> "custom", Command |-> <<<<"/", "opt", "bin", "tool">>, <<"run">>>>,
       WorkingDir |-> <<"/">>, User |-> "", Environment |-> <<>>, AutoRestart |-> FALSE,
       Config |-> "", SystemdRaw |-> "raw unit"] }

UnitServices ==
    { [Name |-> n, Type |-> sh.Type, Command |-> sh.Command, WorkingDir |-> sh.WorkingDir,
       User |-> sh.User, Environment |-> sh.Environment, AutoRestart |-> sh.AutoRestart,
       Config |-> sh.Config, SystemdRaw |-> sh.SystemdRaw] : n \in ServiceNames, sh \in UnitShapes }

MaxUnitOps == 3

InitUnit ==
    /\ mgr = NewManager
    /\ siteFiles = NoFiles
    /\ unitFiles = NoFiles
    /\ dirs = {}
    /\ projects = NoFiles
    /\ services = NoFiles
    /\ nextID = 1
    /\ call = NoCall
    /\ ops = 0
    /\ StoreOpened
    /\ NoProcess

DoInstallService(service, failAt) ==
    LET r == InstallService(unitFiles, dirs, service, failAt)
    IN  /\ ops < MaxUnitOps
        /\ unitFiles' = r.files
        /\ dirs' = r.dirs
        /\ call' = [op |-> "InstallService", service |-> service, failAt |-> failAt,
                    trace |-> r.trace, err |-> r.err,
                    before |-> [files |-> unitFiles, dirs |-> dirs]]
        /\ ops' = ops + 1
        /\ UNCHANGED <<siteVars, storeVars, dbVars, procVars>>

DoUninstallService(serviceName, env) ==
    LET r == UninstallService(unitFiles, serviceName, env)
    IN  /\ ops < MaxUnitOps
        /\ unitFiles' = r.files
        /\ call' = [op |-> "UninstallService", serviceName |-> serviceName, env |-> env,
                    trace |-> r.trace, err |-> r.err,
                    before |-> [files |-> unitFiles, dirs |-> dirs]]
        /\ ops' = ops + 1
        /\ UNCHANGED <<dirs, siteVars, storeVars, dbVars, procVars>>

NextUnit ==
    \/ \E service \in UnitServices, failAt \in InstallFaults : DoInstallService(service, failAt)
    \/ \E service \in UnitServices, env \in UninstallEnvs :
          DoUninstallService(ServiceName(service), env)

SpecUnit == InitUnit /\ [][NextUnit]_vars

-----------------------------------------------------------------------------
(* Claims about InstallService and UninstallService *)

InstallServiceReturned == call.op = "InstallService"

InstallOrder == <<"user-check", "exe-check", "generate", "mkdir", "chown", "write", "reload">>

\* The steps of a trace occur once each and in the order of InstallOrder.
InOrder(trace) ==
    \A i, j \in 1..Len(trace) :
        i < j => IndexOf(InstallOrder, trace[i]) < IndexOf(InstallOrder, trace[j])

\* The step that the fault failAt makes fail.
FailedStep(failAt) ==
    CASE failAt = "user" -> "user-check"
      [] failAt = "exe" -> "exe-check"
      [] OTHER -> failAt

UserMissing ==
    /\ InstallServiceReturned
    /\ call.service.User \notin {"", "root"}
    /\ call.failAt = "user"

ExecutableMissing ==
    /\ InstallServiceReturned
    /\ Len(call.service.Command) > 0
    /\ call.service.Command[1][1] = "/"
    /\ call.failAt = "exe"

\* C3: the steps of InstallService run in the order user-check, exe-check,
\* mkdir, write, reload, and a failed step ends the call; a missing user
\* fails the call before any change of the file system, a missing absolute
\* executable before the unit file is written, and after a successful call
\* the unit file is at <unit_dir>/servio-<name>.service and the supervisor
\* was reloaded exactly once.
C3_InstallPreflightOrder ==
    InstallServiceReturned =>
        /\ InOrder(call.trace)
        /\ Range(call.trace) \subseteq Range(InstallOrder)
        /\ UserMissing =>
              /\ call.err # ""
              /\ unitFiles = call.before.files
              /\ dirs = call.before.dirs
              /\ Range(call.trace) \cap {"mkdir", "write", "reload"} = {}
        /\ ExecutableMissing =>
              /\ call.err # ""
              /\ unitFiles = call.before.files
              /\ Range(call.trace) \cap {"write", "reload"} = {}
        /\ call.err # "" => call.trace[Len(call.trace)] = FailedStep(call.failAt)
        /\ call.err = "" =>
              /\ <<"/etc/systemd/system", <<"servio-", call.service.Name, ".service">>>>
                    \in DOMAIN unitFiles
              /\ Count(call.trace, "reload") = 1
              /\ Before(call.trace, "write", "reload")

\* A call that failed on the missing user of a service that has a working
\* directory to create.
C3_Witness ==
    /\ UserMissing
    /\ call.service.WorkingDir \notin {<<>>, <<"/">>}
    /\ call.service.WorkingDir \notin dirs

\* C4: UninstallService makes all three of its steps in every call: the
\* supervisor reload is invoked even when removing the unit file failed.
C4_UninstallAlwaysReloads ==
    call.op = "UninstallService" =>
        /\ Before(call.trace, "stop", "disable")
        /\ Before(call.trace, "disable", "remove")
        /\ Before(call.trace, "remove", "reload")

-----------------------------------------------------------------------------
(* internal/storage/repository.go: the tables, with the constraints of the *)
(* schema of internal/storage/db.go                                        *)

\* Service names in ascending order (ORDER BY name ASC).
NameOrder == <<"api", "db", "web">>

\* UNIQUE(project_id, name), for the row id being inserted or updated.
UniqueViolation(svcs, id, projectID, name) ==
    \E i \in DOMAIN svcs : i # id /\ svcs[i].ProjectID = projectID /\ svcs[i].Name = name

\* CreateService: the user defaults to root; the insert fails on a missing
\* project (foreign key) and on a duplicate (project_id, name).
CreateService(projs, svcs, id, req) ==
    IF req.ProjectID \notin DOMAIN projs
    THEN [services |-> svcs, nextID |-> id, err |-> "FOREIGN KEY constraint failed"]
    ELSE IF UniqueViolation(svcs, id, req.ProjectID, req.Name)
    THEN [services |-> svcs, nextID |-> id, err |-> "UNIQUE constraint failed"]
    ELSE [services |-> WriteFile(svcs, id,
                          [ID |-> id, ProjectID |-> req.ProjectID, Name |-> req.Name,
                           Type |-> req.Type, Version |-> req.Version, Port |-> req.Port,
                           GitRepoURL |-> req.GitRepoURL, Command |-> req.Command,
                           WorkingDir |-> req.WorkingDir,
                           User |-> IF req.User = "" THEN "root" ELSE req.User,
                           Environment |-> req.Environment, AutoRestart |-> req.AutoRestart,
                           Config |-> req.Config, SystemdRaw |-> req.SystemdRaw,
                           NginxRaw |-> req.NginxRaw]),
          nextID |-> id + 1, err |-> ""]

\* UpdateService replaces every column but id, project_id, type and version.
UpdateService(svcs, id, req) ==
    IF id \notin DOMAIN svcs
    THEN [services |-> svcs, err |-> ""]
    ELSE IF UniqueViolation(svcs, id, svcs[id].ProjectID, req.Name)
    THEN [services |-> svcs, err |-> "UNIQUE constraint failed"]
    ELSE [services |-> [svcs EXCEPT ![id] =
                          [ID |-> id, ProjectID |-> @.ProjectID, Name |-> req.Name,
                           Type |-> @.Type, Version |-> @.Version, Port |-> req.Port,
                           GitRepoURL |-> req.GitRepoURL, Command |-> req.Command,
                           WorkingDir |-> req.WorkingDir, User |-> req.User,
                           Environment |-> req.Environment, AutoRestart |-> req.AutoRestart,
                           Config |-> req.Config, SystemdRaw |-> req.SystemdRaw,
                           NginxRaw |-> req.NginxRaw]],
          err |-> ""]

\* ListServicesByProject: the rows of the project, by name ascending.
ListServicesByProject(svcs, projectID) ==
    LET named(n) == {i \in DOMAIN svcs : svcs[i].ProjectID = projectID /\ svcs[i].Name = n}
        present == SelectSeq(NameOrder, LAMBDA n : named(n) # {})
    IN  [k \in 1..Len(present) |-> svcs[CHOOSE i \in named(present[k]) : TRUE]]

\* DeleteProject: ON DELETE CASCADE removes the service rows of the project.
DeleteProject(projs, svcs, id) ==
    [projects |-> RemoveFile(projs, id),
     services |-> [i \in {j \in DOMAIN svcs : svcs[j].ProjectID # id} |-> svcs[i]]]

DeleteService(svcs, id) == RemoveFile(svcs, id)

-----------------------------------------------------------------------------
(* internal/git/clone.go *)

GitPrefixes == {"git@", "https://", "http://", "ssh://", "git://"}

\* A URL is the pair of its first piece and the rest; "" is <<>>.
isValidGitURL(url) == url # <<>> /\ \E p \in GitPrefixes : url[1] = p

\* filepath.Dir of a path of several segments.
ParentDir(path) == SubSeq(path, 1, Len(path) - 1)

\* CloneRepository with the outcome gitOk of the git subprocess: the
\* directories afterwards, whether git ran, and the error.
CloneRepository(ds, repoURL, targetDir, gitOk) ==
    IF repoURL = <<>>
    THEN [dirs |-> ds, ran |-> "", err |-> ""]
    ELSE IF ~isValidGitURL(repoURL)
    THEN [dirs |-> ds, ran |-> "", err |-> "invalid git repository URL"]
    ELSE IF targetDir \in ds
    THEN IF (targetDir \o <<".git">>) \in ds
         THEN [dirs |-> ds, ran |-> "pull",
               err |-> IF gitOk THEN "" ELSE "git pull failed"]
         ELSE [dirs |-> ds, ran |-> "",
               err |-> "directory already exists and is not a git repository"]
    ELSE IF gitOk
    THEN [dirs |-> ds \cup {ParentDir(targetDir), targetDir, targetDir \o <<".git">>},
          ran |-> "clone", err |-> ""]
    ELSE [dirs |-> ds \cup {ParentDir(targetDir)}, ran |-> "clone", err |-> "git clone failed"]

-----------------------------------------------------------------------------
(* internal/http/handlers.go: create service and delete project *)

MaxOps == 3

Step(name, err) == [step |-> name, err |-> err]

\* The outcomes of InstallService inside a handler: success, a failure
\* before the unit file is written, and a failure after it.
HandlerInstallFaults == {"none", "write", "reload"}

\* The outcomes of one UninstallService inside a handler.
HandlerUninstallEnvs ==
    { e \in UninstallEnvs : e.stopOk /\ e.disableOk }

\* handleAPIServices, POST: persist, then install; no clone.
HandleAPICreateService(projs, svcs, id, files, ds, req, failAt) ==
    LET Installed(c, inst) ==
            [services |-> c.services, nextID |-> c.nextID, files |-> inst.files,
             dirs |-> inst.dirs, status |-> 201,
             trace |-> <<Step("CreateService", ""), Step("InstallService", inst.err)>>]
        Created(c) ==
            IF c.err # ""
            THEN [services |-> svcs, nextID |-> id, files |-> files, dirs |-> ds,
                  status |-> 500, trace |-> <<Step("CreateService", c.err)>>]
            ELSE Installed(c, InstallService(files, ds, c.services[id], failAt))
    IN  Created(CreateService(projs, svcs, id, req))

\* handleNewService, POST: persist, clone when a repository and a working
\* directory are given, then install.
HandleUICreateService(projs, svcs, id, files, ds, req, gitOk, failAt) ==
    LET Installed(c, cloneSteps, inst) ==
            [services |-> c.services, nextID |-> c.nextID, files |-> inst.files,
             dirs |-> inst.dirs, status |-> 303,
             trace |-> <<Step("CreateService", "")>> \o cloneSteps
                       \o <<Step("InstallService", inst.err)>>]
        Cloned(c, service, clone) ==
            Installed(c, <<Step("CloneRepository", clone.err)>>,
                      InstallService(files, clone.dirs, service, failAt))
        Saved(c, service) ==
            IF service.GitRepoURL # <<>> /\ service.WorkingDir # <<>>
            THEN Cloned(c, service,
                        CloneRepository(ds, service.GitRepoURL, service.WorkingDir, gitOk))
            ELSE Installed(c, <<>>, InstallService(files, ds, service, failAt))
        Created(c) ==
            IF c.err # ""
            THEN [services |-> svcs, nextID |-> id, files |-> files, dirs |-> ds,
                  status |-> 200, trace |-> <<Step("CreateService", c.err)>>]
            ELSE Saved(c, c.services[id])
    IN  Created(CreateService(projs, svcs, id, req))

RECURSIVE UninstallAllUntilError(_, _, _)
UninstallAllUntilError(files, children, envs) ==
    IF children = <<>>
    THEN [files |-> files, trace |-> <<>>]
    ELSE LET name == ServiceName(Head(children))
             r == UninstallService(files, name, Head(envs))
             rest == IF r.err # "" THEN [files |-> r.files, trace |-> <<>>]
                     ELSE UninstallAllUntilError(r.files, Tail(children), Tail(envs))
         IN  [files |-> rest.files,
              trace |-> <<[step |-> "UninstallService", unit |-> name, err |-> r.err]>>
                        \o rest.trace]

\* The loop of the delete handlers: uninstall every child, whatever the
\* outcome for the children before it.
RECURSIVE UninstallAll(_, _, _)
UninstallAll(files, children, envs) ==
    IF children = <<>>
    THEN [files |-> files, trace |-> <<>>]
    ELSE LET name == ServiceName(Head(children))
             r == UninstallService(files, name, Head(envs))
             rest == UninstallAll(r.files, Tail(children), Tail(envs))
         IN  [files |-> rest.files,
              trace |-> <<[step |-> "UninstallService", unit |-> name, err |-> r.err]>>
                        \o rest.trace]

\* handleAPIProject DELETE (204) and handleProjectDetail action delete (303).
HandleDeleteProject(projs, svcs, files, id, envs, okStatus) ==
    LET Deleted(children, u, d) ==
            [projects |-> d.projects, services |-> d.services, files |-> u.files,
             status |-> okStatus, trace |-> u.trace \o <<Step("DeleteProject", "")>>,
             children |-> children]
        Found(children) ==
            Deleted(children, UninstallAll(files, children, envs), DeleteProject(projs, svcs, id))
    IN  IF id \notin DOMAIN projs
        THEN [projects |-> projs, services |-> svcs, files |-> files, status |-> 404,
              trace |-> <<>>, children |-> <<>>]
        ELSE Found(ListServicesByProject(svcs, id))

\* The requests made of the handlers.
CreateShape(name) ==
    IF name = "web"
    THEN [Type |-> "custom", Version |-> "", Port |-> 8080,
          GitRepoURL |-> <<"https://", "git.example/app.git">>,
          Command |-> <<<<".", "run.sh">>>>, WorkingDir |-> <<"/", "srv", "app">>,
          User |-> "", Environment |-> <<>>, AutoRestart |-> TRUE, Config |-> "",
          SystemdRaw |-> "", NginxRaw |-> ""]
    ELSE [Type |-> "custom", Version |-> "", Port |-> 0,
          GitRepoURL |-> <<"git@", "git.example:db.git">>,
          Command |-> <<<<"/", "usr", "bin", "true">>>>, WorkingDir |-> <<>>,
          User |-> "root", Environment |-> <<>>, AutoRestart |-> FALSE, Config |-> "",
          SystemdRaw |-> "", NginxRaw |-> ""]

CreateRequests ==
    { [ProjectID |-> pid, Name |-> n, Type |-> CreateShape(n).Type,
       Version |-> CreateShape(n).Version, Port |-> CreateShape(n).Port,
       GitRepoURL |-> CreateShape(n).GitRepoURL, Command |-> CreateShape(n).Command,
       WorkingDir |-> CreateShape(n).WorkingDir, User |-> CreateShape(n).User,
       Environment |-> CreateShape(n).Environment, AutoRestart |-> CreateShape(n).AutoRestart,
       Config |-> CreateShape(n).Config, SystemdRaw |-> CreateShape(n).SystemdRaw,
       NginxRaw |-> CreateShape(n).NginxRaw] : pid \in 1..MaxProjectID, n \in ServiceNames }

\* Requests for a service whose repository URL has none of the prefixes.
BadURLRequests ==
    { [req EXCEPT !.GitRepoURL = <<"ftp://", "git.example/app.git">>] :
        req \in {r \in CreateRequests : r.Name = "web"} }

ProjectRow(id) ==
    [ID |-> id, Name |-> <<"a", "p", "p", Itoa(id)>>, Description |-> "",
     Domain |-> "app.example", NginxRaw |-> ""]

\* The store as opened: the projects exist, no service has been added yet.
Init ==
    /\ mgr = NewManager
    /\ siteFiles = NoFiles
    /\ unitFiles = NoFiles
    /\ dirs = {}
    /\ projects = [id \in 1..MaxProjectID |-> ProjectRow(id)]
    /\ services = NoFiles
    /\ nextID = 1
    /\ call = NoCall
    /\ ops = 0
    /\ StoreOpened
    /\ NoProcess

\* The effect of a create request answered with r.
CreateServiceReturns(via, req, r) ==
    /\ services' = r.services
    /\ nextID' = r.nextID
    /\ unitFiles' = r.files
    /\ dirs' = r.dirs
    /\ call' = [op |-> "CreateService", via |-> via, req |-> req, id |-> nextID,
                status |-> r.status, trace |-> r.trace]
    /\ ops' = ops + 1
    /\ UNCHANGED <<projects, siteVars, dbVars, procVars>>

APICreateService(req, failAt) ==
    /\ ops < MaxOps
    /\ CreateServiceReturns("api", req,
          HandleAPICreateService(projects, services, nextID, unitFiles, dirs, req, failAt))

UICreateService(req, gitOk, failAt) ==
    /\ ops < MaxOps
    /\ CreateServiceReturns("ui", req,
          HandleUICreateService(projects, services, nextID, unitFiles, dirs, req, gitOk, failAt))

\* The effect of a delete request answered with r.
DeleteProjectReturns(via, id, envs, r) ==
    /\ projects' = r.projects
    /\ services' = r.services
    /\ unitFiles' = r.files
    /\ call' = [op |-> "DeleteProject", via |-> via, id |-> id, status |-> r.status,
                trace |-> r.trace, children |-> r.children, envs |-> envs,
                before |-> unitFiles]
    /\ ops' = ops + 1
    /\ UNCHANGED <<nextID, dirs, siteVars, dbVars, procVars>>

APIDeleteProject(id, envs) ==
    /\ ops < MaxOps
    /\ DeleteProjectReturns("api", id, envs,
          HandleDeleteProject(projects, services, unitFiles, id, envs, 204))

UIDeleteProject(id, envs) ==
    /\ ops < MaxOps
    /\ DeleteProjectReturns("ui", id, envs,
          HandleDeleteProject(projects, services, unitFiles, id, envs, 303))

\* The outcomes of the uninstalls of the children of project id, one each.
ChildEnvs(id) ==
    [1..Len(ListServicesByProject(services, id)) -> HandlerUninstallEnvs]

Next ==
    \/ \E req \in CreateRequests \cup BadURLRequests, failAt \in HandlerInstallFaults :
          APICreateService(req, failAt)
    \/ \E req \in CreateRequests \cup BadURLRequests, gitOk \in BOOLEAN,
          failAt \in HandlerInstallFaults : UICreateService(req, gitOk, failAt)
    \/ \E id \in 1..MaxProjectID : \E envs \in ChildEnvs(id) : APIDeleteProject(id, envs)
    \/ \E id \in 1..MaxProjectID : \E envs \in ChildEnvs(id) : UIDeleteProject(id, envs)

Spec == Init /\ [][Next]_vars

-----------------------------------------------------------------------------
(* Properties of the create and delete handlers *)

\* C5: any two distinct service records the store holds have distinct unit
\* file paths, so installs of different services never write the same file.
C5_DistinctUnitPaths ==
    \A a \in DOMAIN services : \A b \in DOMAIN services :
        a # b => ServicePath(services[a]) # ServicePath(services[b])

CreateServiceReturned == call.op = "CreateService"

Persisted == CreateServiceReturned /\ call.trace[1] = Step("CreateService", "")

StepNames(trace) == [i \in 1..Len(trace) |-> trace[i].step]

\* C10: on both create paths the record is persisted first, a service with a
\* repository and a working directory is cloned before its unit is installed,
\* and neither a failed clone nor a failed install fails the request or
\* removes the record.
C10_CreateClonesThenInstalls ==
    Persisted =>
        /\ call.status \in {201, 303}
        /\ call.id \in DOMAIN services
        /\ StepNames(call.trace) =
              IF call.req.GitRepoURL # <<>> /\ call.req.WorkingDir # <<>>
              THEN <<"CreateService", "CloneRepository", "InstallService">>
              ELSE <<"CreateService", "InstallService">>

DeleteProjectReturned == call.op = "DeleteProject" /\ call.status \in {204, 303}

ChildPath(i) == ServicePath(call.children[i])

\* Every child was uninstalled, in the order listed, whatever the outcome of
\* the others, and the row was deleted after the last of them.
UninstalledAllThenDeleted ==
    /\ Len(call.trace) = Len(call.children) + 1
    /\ \A i \in 1..Len(call.children) :
          /\ call.trace[i].step = "UninstallService"
          /\ call.trace[i].unit = ServiceName(call.children[i])
    /\ call.trace[Len(call.trace)] = Step("DeleteProject", "")

RowsGone ==
    /\ call.id \notin DOMAIN projects
    /\ \A sid \in DOMAIN services : services[sid].ProjectID # call.id

-----------------------------------------------------------------------------
(* internal/http/handlers.go: update service *)

MaxUpdateOps == 2

\* handleAPIService, PUT: update the row, then reinstall the unit; the
\* result of the install is dropped.
HandleAPIUpdateService(svcs, files, ds, id, req, failAt) ==
    LET Installed(u, inst) ==
            [services |-> u.services, files |-> inst.files, dirs |-> inst.dirs,
             status |-> 200,
             trace |-> <<Step("UpdateService", ""), Step("InstallService", inst.err)>>]
        Stored(u) ==
            IF u.err # ""
            THEN [services |-> svcs, files |-> files, dirs |-> ds, status |-> 500,
                  trace |-> <<Step("UpdateService", u.err)>>]
            ELSE Installed(u, InstallService(files, ds, u.services[id], failAt))
    IN  Stored(UpdateService(svcs, id, req))

\* handleServiceDetail, edit POST: the submitted command is compared with the
\* command generated for the stored record carrying the new port, the update
\* is stored with an empty config, then the unit is reinstalled and restarted.
\* When the store refuses the update the handler reads the project id through
\* the nil record it got back and panics: no response is written (status 0).
HandleUIUpdateService(svcs, files, ds, id, form, failAt, restartOk) ==
    LET Installed(u, inst) ==
            [services |-> u.services, files |-> inst.files, dirs |-> inst.dirs,
             status |-> 303,
             trace |-> <<Step("UpdateService", ""), Step("InstallService", inst.err),
                         Step("Restart", IF restartOk THEN "" ELSE "systemctl restart failed")>>]
        Stored(u) ==
            IF u.err # ""
            THEN [services |-> svcs, files |-> files, dirs |-> ds, status |-> 0,
                  trace |-> <<Step("UpdateService", u.err)>>]
            ELSE Installed(u, InstallService(files, ds, u.services[id], failAt))
        Submit(command) ==
            Stored(UpdateService(svcs, id, [form EXCEPT !.Command = command, !.Config = ""]))
        Compare(service, generatedCmd) ==
            IF RegistryGet(service.Type) /\ form.Command = generatedCmd
            THEN Submit(<<>>) ELSE Submit(form.Command)
    IN  Compare(svcs[id], DjangoGenerateCommand([svcs[id] EXCEPT !.Port = form.Port]))

\* The records the update handlers find: a blueprint-managed service and a
\* custom one, both created and installed through POST /api/services.
SeedRequest(name, config) ==
    IF name = "web"
    THEN [ProjectID |-> 1, Name |-> "web", Type |-> "django", Version |-> "", Port |-> 8000,
          GitRepoURL |-> <<>>, Command |-> <<>>, WorkingDir |-> <<"/", "var", "www", "app">>,
          User |-> "www-data", Environment |-> <<>>, AutoRestart |-> TRUE, Config |-> config,
          SystemdRaw |-> "", NginxRaw |-> ""]
    ELSE [ProjectID |-> 1, Name |-> "db", Type |-> "custom", Version |-> "", Port |-> 0,
          GitRepoURL |-> <<>>, Command |-> <<<<"/", "usr", "bin", "true">>>>,
          WorkingDir |-> <<>>, User |-> "root", Environment |-> <<>>, AutoRestart |-> FALSE,
          Config |-> "", SystemdRaw |-> "", NginxRaw |-> ""]

Seeded(config) ==
    LET projs == [id \in 1..MaxProjectID |-> ProjectRow(id)]
        Second(a) ==
            HandleAPICreateService(projs, a.services, a.nextID, a.files, a.dirs,
                                   SeedRequest("db", ""), "none")
    IN  Second(HandleAPICreateService(projs, NoFiles, 1, NoFiles, {},
                                      SeedRequest("web", config), "none"))

SeedConfigs == {"", ConfigWorkers4}

SeededState(s) ==
    /\ services = s.services
    /\ nextID = s.nextID
    /\ unitFiles = s.files
    /\ dirs = s.dirs

InitSeeded ==
    /\ mgr = NewManager
    /\ siteFiles = NoFiles
    /\ projects = [id \in 1..MaxProjectID |-> ProjectRow(id)]
    /\ \E config \in SeedConfigs : SeededState(Seeded(config))
    /\ call = NoCall
    /\ ops = 0
    /\ StoreOpened
    /\ NoProcess

\* The commands submitted: the one generated with the default config, the one
\* generated with four workers, and one written by hand.
UpdateCommands ==
    { DjangoGenerateCommand([Config |-> ""]), DjangoGenerateCommand([Config |-> ConfigWorkers4]),
      <<<<"/", "usr", "bin", "true">>>> }

UpdateRequests ==
    { [Name |-> n, Port |-> 9000, GitRepoURL |-> <<>>, Command |-> c,
       WorkingDir |-> <<"/", "var", "www", "app">>, User |-> "www-data",
       Environment |-> <<>>, AutoRestart |-> TRUE, Config |-> cfg, SystemdRaw |-> "",
       NginxRaw |-> ""] : n \in ServiceNames, c \in UpdateCommands, cfg \in SeedConfigs }

UpdateForms == { r \in UpdateRequests : r.Config = "" }

UpdateInstallFaults == {"none", "write"}

\* The effect of an update request answered with r.
UpdateServiceReturns(via, id, req, r) ==
    /\ services' = r.services
    /\ unitFiles' = r.files
    /\ dirs' = r.dirs
    /\ call' = [op |-> "UpdateService", via |-> via, id |-> id, req |-> req,
                status |-> r.status, trace |-> r.trace, before |-> services[id]]
    /\ ops' = ops + 1
    /\ UNCHANGED <<projects, nextID, siteVars, dbVars, procVars>>

APIUpdateService(id, req, failAt) ==
    /\ ops < MaxUpdateOps
    /\ id \in DOMAIN services
    /\ UpdateServiceReturns("api", id, req,
          HandleAPIUpdateService(services, unitFiles, dirs, id, req, failAt))

UIUpdateService(id, form, failAt, restartOk) ==
    /\ ops < MaxUpdateOps
    /\ id \in DOMAIN services
    /\ UpdateServiceReturns("ui", id, form,
          HandleUIUpdateService(services, unitFiles, dirs, id, form, failAt, restartOk))

NextUpdate ==
    \/ \E id \in DOMAIN services, req \in UpdateRequests, failAt \in UpdateInstallFaults :
          APIUpdateService(id, req, failAt)
    \/ \E id \in DOMAIN services, form \in UpdateForms, failAt \in UpdateInstallFaults,
          restartOk \in BOOLEAN : UIUpdateService(id, form, failAt, restartOk)

SpecUpdate == InitSeeded /\ [][NextUpdate]_vars

UpdateServiceReturned == call.op = "UpdateService"

Updated == UpdateServiceReturned /\ call.trace[1] = Step("UpdateService", "")

\* C8: on both update paths, for a service of a registered type, a submitted
\* command equal to the one the blueprint generates for the updated record is
\* stored as empty, and any other submitted command is stored as submitted.
C8_GeneratedCommandCleared ==
    (Updated /\ services[call.id].Type \in RegisteredTypes) =>
        IF call.req.Command = DjangoGenerateCommand(services[call.id])
        THEN services[call.id].Command = <<>>
        ELSE services[call.id].Command = call.req.Command

\* C9: on both update paths, after the store accepted the update the unit is
\* reinstalled and then restarted, whatever the outcome of the reinstall, the
\* request succeeds and the stored record carries the update.
C9_ReinstallThenRestart ==
    Updated =>
        /\ StepNames(call.trace) = <<"UpdateService", "InstallService", "Restart">>
        /\ call.status \in {200, 303}
        /\ services[call.id].Name = call.req.Name
        /\ services[call.id].Port = call.req.Port

-----------------------------------------------------------------------------
(* internal/http/handlers.go: the install and provision actions *)

MaxActionOps == 2

\* What the commands run by an action answer: the package install of the
\* blueprint, the unit install, systemctl enable and systemctl start.
ActionEnvs ==
    [depsOk : BOOLEAN, install : HandlerInstallFaults, enableOk : BOOLEAN, startOk : BOOLEAN]

\* case "install": InstallService, then Enable (result dropped) and Start.
HandleInstallAction(files, ds, service, env) ==
    LET start == Step("Start", IF env.startOk THEN "" ELSE "systemctl start failed")
        enable == Step("Enable", IF env.enableOk THEN "" ELSE "systemctl enable failed")
        Installed(inst) ==
            IF inst.err # ""
            THEN [files |-> inst.files, dirs |-> inst.dirs,
                  trace |-> <<Step("InstallService", inst.err)>>, err |-> inst.err]
            ELSE [files |-> inst.files, dirs |-> inst.dirs,
                  trace |-> <<Step("InstallService", ""), enable, start>>, err |-> start.err]
    IN  Installed(InstallService(files, ds, service, env.install))

\* case "provision": the blueprint of the type, InstallDependencies, then the
\* steps of the install action.
HandleProvisionAction(files, ds, service, env) ==
    LET Provisioned(rest) ==
            [files |-> rest.files, dirs |-> rest.dirs,
             trace |-> <<Step("InstallDependencies", "")>> \o rest.trace, err |-> rest.err]
    IN  IF ~RegistryGet(service.Type)
        THEN [files |-> files, dirs |-> ds, trace |-> <<>>, err |-> "no blueprint found"]
        ELSE IF ~env.depsOk
        THEN [files |-> files, dirs |-> ds,
              trace |-> <<Step("InstallDependencies", "failed to install python")>>,
              err |-> "failed to install python"]
        ELSE Provisioned(HandleInstallAction(files, ds, service, env))

\* The effect of an action answered with r.
ActionReturns(action, id, env, r) ==
    /\ unitFiles' = r.files
    /\ dirs' = r.dirs
    /\ call' = [op |-> action, id |-> id, env |-> env, trace |-> r.trace,
                err |-> r.err, status |-> 303]
    /\ ops' = ops + 1
    /\ UNCHANGED <<storeVars, siteVars, dbVars, procVars>>

InstallAction(id, env) ==
    /\ ops < MaxActionOps
    /\ id \in DOMAIN services
    /\ ActionReturns("install", id, env,
          HandleInstallAction(unitFiles, dirs, services[id], env))

ProvisionAction(id, env) ==
    /\ ops < MaxActionOps
    /\ id \in DOMAIN services
    /\ ActionReturns("provision", id, env,
          HandleProvisionAction(unitFiles, dirs, services[id], env))

\* The install action runs no package install.
InstallActionEnvs == { e \in ActionEnvs : e.depsOk }

NextAction ==
    \/ \E id \in DOMAIN services, env \in InstallActionEnvs : InstallAction(id, env)
    \/ \E id \in DOMAIN services, env \in ActionEnvs : ProvisionAction(id, env)

SpecAction == InitSeeded /\ [][NextAction]_vars

ProvisionOrder == <<"InstallDependencies", "InstallService", "Enable", "Start">>

\* C7: provision runs InstallDependencies, InstallService, Enable, Start in
\* that order, a failed step is the last step run and its error is the error
\* of the action; for a type without a blueprint no step runs and an error is
\* reported.
C7_ProvisionShortCircuits ==
    call.op = "provision" =>
        IF services[call.id].Type \notin RegisteredTypes
        THEN call.trace = <<>> /\ call.err # ""
        ELSE /\ Len(call.trace) >= 1
             /\ StepNames(call.trace) = SubSeq(ProvisionOrder, 1, Len(call.trace))
             /\ \A i \in 1..(Len(call.trace) - 1) : call.trace[i].err = ""
             /\ call.err = call.trace[Len(call.trace)].err
             /\ call.err = "" => Len(call.trace) = 4

-----------------------------------------------------------------------------
(* internal/systemd/logs.go: StreamLogs, and its consumer handleLogStream *)

\* make(chan string, 100)
logChanCap == 100

\* Lines the pipe between journalctl and the scanner holds at most.
MaxPipeLines == 1

\* exec.CommandContext: the command is killed once the context is done and
\* the process has not completed on its own.
WatchCtxNever(s) == FALSE

WatchCtxKills(s) == s.ctx = "cancelled" /\ s.proc = "running"

\* The stream as StreamLogs returns it: the subprocess runs, the channel is
\* empty, the producer goroutine is about to scan, the handler to select.
StartedStream ==
    [pc |-> "streaming", ctx |-> "live", proc |-> "running", reaped |-> FALSE,
     pipe |-> 0, chan |-> 0, closed |-> 0, prod |-> "scan", cons |-> "select"]

\* cmd.Start failed: StreamLogs returns the error, the handler reports it
\* and returns, which cancels its context.
FailedStream == [pc |-> "failed", ctx |-> "cancelled", err |-> "failed to start journalctl"]

Streaming == stream.pc = "streaming"

streamOther == <<mgr, siteFiles, unitFiles, dirs, projects, services, nextID, db, settings,
                 cpuCache, call, ops>>

InitStream ==
    /\ mgr = NewManager
    /\ siteFiles = NoFiles
    /\ unitFiles = NoFiles
    /\ dirs = {}
    /\ projects = NoFiles
    /\ services = NoFiles
    /\ nextID = 1
    /\ call = NoCall
    /\ ops = 0
    /\ StoreOpened
    /\ NoProcess

\* handleLogStream calls StreamLogs.
StreamLogs(started) ==
    /\ stream = NoStream
    /\ stream' = IF started THEN StartedStream ELSE FailedStream
    /\ UNCHANGED streamOther

\* journalctl writes a line to its standard output.
JournalEmit ==
    /\ Streaming
    /\ stream.proc = "running"
    /\ stream.pipe < MaxPipeLines
    /\ stream' = [stream EXCEPT !.pipe = @ + 1]
    /\ UNCHANGED streamOther

\* journalctl ends on its own.
JournalExit ==
    /\ Streaming
    /\ stream.proc = "running"
    /\ stream' = [stream EXCEPT !.proc = "exited"]
    /\ UNCHANGED streamOther

\* The goroutine os/exec starts for a command with a context.
WatchCtx ==
    /\ Streaming
    /\ WatchCtxKills(stream)
    /\ stream' = [stream EXCEPT !.proc = "killed"]
    /\ UNCHANGED streamOther

\* scanner.Scan(): a line, or false at the end of the output.
ProducerScan ==
    /\ Streaming
    /\ stream.prod = "scan"
    /\ \/ /\ stream.pipe > 0
          /\ stream' = [stream EXCEPT !.pipe = @ - 1, !.prod = "select"]
       \/ /\ stream.pipe = 0
          /\ stream.proc # "running"
          /\ stream' = [stream EXCEPT !.prod = "wait"]
    /\ UNCHANGED streamOther

\* scanner.Scan() returns false on a line longer than its buffer.
ProducerScanTooLong ==
    /\ Streaming
    /\ stream.prod = "scan"
    /\ stream.pipe > 0
    /\ stream' = [stream EXCEPT !.pipe = @ - 1, !.prod = "wait"]
    /\ UNCHANGED streamOther

\* select { case <-ctx.Done(): return; case logChan <- scanner.Text(): }
ProducerSelect ==
    /\ Streaming
    /\ stream.prod = "select"
    /\ \/ /\ stream.ctx = "cancelled"
          /\ stream' = [stream EXCEPT !.prod = "wait"]
       \/ /\ stream.chan < logChanCap
          /\ stream' = [stream EXCEPT !.chan = @ + 1, !.prod = "scan"]
    /\ UNCHANGED streamOther

\* defer cmd.Wait(): returns once the process has ended, and reaps it.
ProducerWait ==
    /\ Streaming
    /\ stream.prod = "wait"
    /\ stream.proc # "running"
    /\ stream' = [stream EXCEPT !.reaped = TRUE, !.prod = "close"]
    /\ UNCHANGED streamOther

\* defer close(logChan)
ProducerClose ==
    /\ Streaming
    /\ stream.prod = "close"
    /\ stream' = [stream EXCEPT !.closed = @ + 1, !.prod = "done"]
    /\ UNCHANGED streamOther

\* handleLogStream: case line, ok := <-logChan with a line.
ConsumerReceive ==
    /\ Streaming
    /\ stream.cons = "select"
    /\ stream.chan > 0
    /\ stream' = [stream EXCEPT !.chan = @ - 1]
    /\ UNCHANGED streamOther

\* handleLogStream returns, on the closed channel or on its context; the
\* deferred cancel() runs.
ConsumerReturn ==
    /\ Streaming
    /\ stream.cons = "select"
    /\ \/ stream.ctx = "cancelled"
       \/ stream.closed > 0 /\ stream.chan = 0
    /\ stream' = [stream EXCEPT !.cons = "done", !.ctx = "cancelled"]
    /\ UNCHANGED streamOther

\* The client goes away: the request context is cancelled.
ClientDisconnect ==
    /\ Streaming
    /\ stream.ctx = "live"
    /\ stream' = [stream EXCEPT !.ctx = "cancelled"]
    /\ UNCHANGED streamOther

NextStream ==
    \/ \E started \in BOOLEAN : StreamLogs(started)
    \/ JournalEmit
    \/ JournalExit
    \/ WatchCtx
    \/ ProducerScan
    \/ ProducerScanTooLong
    \/ ProducerSelect
    \/ ProducerWait
    \/ ProducerClose
    \/ ConsumerReceive
    \/ ConsumerReturn
    \/ ClientDisconnect

\* The goroutines StreamLogs starts keep running: the producer and the
\* watcher of os/exec.  Nothing is assumed of journalctl, of the client or
\* of the consumer.
FairStream ==
    /\ WF_vars(WatchCtx)
    /\ WF_vars(ProducerScan)
    /\ WF_vars(ProducerSelect)
    /\ WF_vars(ProducerWait)
    /\ WF_vars(ProducerClose)

\* The handler keeps running its receive loop.
FairConsumer == WF_vars(ConsumerReceive) /\ WF_vars(ConsumerReturn)

SpecStream == InitStream /\ [][NextStream]_vars /\ FairStream

StreamCancelled == Streaming /\ stream.ctx = "cancelled"

SubprocessEnded == Streaming /\ stream.proc = "exited"

ClosedAfterReap ==
    Streaming /\ stream.closed = 1 /\ stream.reaped /\ stream.proc # "running"
    /\ stream.prod = "done"

-----------------------------------------------------------------------------
(* internal/monitor/stats.go: per-unit statistics *)

\* Largest cumulative CPU reading and latest clock reading explored.
MaxNS == 2
MaxTime == 2

\* uint64 arithmetic, explored modulo 2^16.
UintModulus == 65536

UnitA == <<"servio-", "web", ".service">>
UnitB == <<"servio-", "db", ".service">>

\* (float64(diffNS) / float64(diffTime)) * 100, kept as a fraction.
Percent(diffNS, diffTime) == [num |-> diffNS * 100, den |-> diffTime]

ZeroPercent == [num |-> 0, den |-> 1]

\* The CPU share of one observation: the zero value of the field unless the
\* unit is cached and time has passed.
CPUUsage(cache, name, cpuNS, now) ==
    IF name \in DOMAIN cache /\ now - cache[name].lastTime > 0
    THEN Percent((cpuNS - cache[name].lastNS) % UintModulus, now - cache[name].lastTime)
    ELSE ZeroPercent

StoreEntrySkipped(cache, name, cpuNS, now) == cache

\* serviceCPUMap.Store(name, &cpuEntry{lastNS: cpuNS, lastTime: now})
StoreEntry(cache, name, cpuNS, now) ==
    WriteFile(cache, name, [lastNS |-> cpuNS, lastTime |-> now])

\* getLinuxServiceStats: for each name in turn, skip it when systemctl show
\* fails, else compute the share from the cached pair and replace the pair.
RECURSIVE getLinuxServiceStats(_, _, _)
getLinuxServiceStats(cache, serviceNames, readings) ==
    IF serviceNames = <<>>
    THEN [cache |-> cache, stats |-> NoFiles]
    ELSE LET name == Head(serviceNames)
             rd == Head(readings)
             Rest(r, cpu) ==
                 [cache |-> r.cache,
                  stats |-> IF name \in DOMAIN r.stats THEN r.stats
                            ELSE WriteFile(r.stats, name, [CPUUsage |-> cpu])]
         IN  IF ~rd.ok
             THEN getLinuxServiceStats(cache, Tail(serviceNames), Tail(readings))
             ELSE Rest(getLinuxServiceStats(StoreEntry(cache, name, rd.ns, rd.now),
                                           Tail(serviceNames), Tail(readings)),
                       CPUUsage(cache, name, rd.ns, rd.now))

\* The latest reading of the monotonic clock so far.
LatestTime(cache) ==
    IF DOMAIN cache = {} THEN 0
    ELSE CHOOSE t \in {cache[n].lastTime : n \in DOMAIN cache} :
             \A n \in DOMAIN cache : cache[n].lastTime <= t

\* What systemctl show and time.Now() answer for one unit.
Readings ==
    [ok : {TRUE}, ns : 0..MaxNS, now : 0..MaxTime] \cup [ok : {FALSE}, ns : {0}, now : {0}]

StatsRequests == {<<UnitA>>, <<UnitB>>, <<UnitA, UnitB>>}

\* The clock never goes back: within a call and from call to call.
ClockOrdered(cache, readings) ==
    /\ \A i \in 1..Len(readings) : readings[i].ok => readings[i].now >= LatestTime(cache)
    /\ \A i \in 1..Len(readings) : \A j \in 1..Len(readings) :
          (i < j /\ readings[i].ok /\ readings[j].ok) => readings[i].now <= readings[j].now

statsOther == <<mgr, siteFiles, unitFiles, dirs, projects, services, nextID, db, settings,
                stream, ops>>

StatsReturns(serviceNames, readings, r) ==
    /\ cpuCache' = r.cache
    /\ call' = [op |-> "GetStats", names |-> serviceNames, readings |-> readings,
                stats |-> r.stats, before |-> cpuCache]
    /\ UNCHANGED statsOther

GetStats(serviceNames, readings) ==
    /\ ClockOrdered(cpuCache, readings)
    /\ StatsReturns(serviceNames, readings,
                    getLinuxServiceStats(cpuCache, serviceNames, readings))

NextStats ==
    \E serviceNames \in StatsRequests :
        \E readings \in [1..Len(serviceNames) -> Readings] : GetStats(serviceNames, readings)

SpecStats == InitStream /\ [][NextStats]_vars

GetStatsReturned == call.op = "GetStats"

Observed(i) == call.readings[i].ok

\* C12: a first observation of a unit reports 0; a later one with more CPU
\* time at a later instant reports 100 * (ns2 - ns1) / (t2 - t1) over the pair
\* cached for that unit; every observation leaves its pair in the cache.
C12_CPUDerivative ==
    GetStatsReturned =>
        \A i \in 1..Len(call.names) :
            Observed(i) =>
                /\ call.names[i] \notin DOMAIN call.before
                      => call.stats[call.names[i]].CPUUsage = ZeroPercent
                /\ (/\ call.names[i] \in DOMAIN call.before
                    /\ call.readings[i].ns > call.before[call.names[i]].lastNS
                    /\ call.readings[i].now > call.before[call.names[i]].lastTime)
                      => call.stats[call.names[i]].CPUUsage =
                            [num |-> 100 * (call.readings[i].ns
                                            - call.before[call.names[i]].lastNS),
                             den |-> call.readings[i].now
                                     - call.before[call.names[i]].lastTime]
                /\ call.names[i] \in DOMAIN cpuCache
                /\ cpuCache[call.names[i]] =
                      [lastNS |-> call.readings[i].ns, lastTime |-> call.readings[i].now]

\* A second observation of a unit, later and with more CPU time, next to a
\* first observation of another unit.
C12_Witness ==
    /\ GetStatsReturned
    /\ call.names = <<UnitA, UnitB>>
    /\ Observed(1) /\ Observed(2)
    /\ UnitA \in DOMAIN call.before
    /\ UnitB \notin DOMAIN call.before
    /\ call.readings[1].ns = call.before[UnitA].lastNS + 2
    /\ call.readings[1].now = call.before[UnitA].lastTime + 1
    /\ call.stats[UnitA].CPUUsage = [num |-> 200, den |-> 1]

-----------------------------------------------------------------------------
(* internal/storage/repository.go called by requests served concurrently:  *)
(* every statement runs on a connection of the pool of database/sql        *)

MaxStoreOps == 4

\* database/sql keeps two idle connections unless told otherwise, and New
\* leaves the pool as sql.Open made it.
defaultMaxIdleConns == 2

\* The pool hands a statement an idle connection, or opens a new one when
\* the others are busy with the statements of concurrent requests.
PoolChoices(d) ==
    1..(IF Len(d.conns) < defaultMaxIdleConns THEN Len(d.conns) + 1
        ELSE defaultMaxIdleConns)

\* A connection the pool opens after storage.New has SQLite's default:
\* foreign keys are not enforced on it.
AcquireConn(d, c) == IF c <= Len(d.conns) THEN d ELSE [d EXCEPT !.conns = Append(@, FALSE)]

ForeignKeys(d, c) == c <= Len(d.conns) /\ d.conns[c]

ProjectNameTakenNever(projs, id, name) == FALSE

\* projects.name is UNIQUE, for the row id being inserted or updated.
ProjectNameTaken(projs, id, name) ==
    \E i \in DOMAIN projs : i # id /\ projs[i].Name = name

\* CreateProject: INSERT INTO projects (name, description, domain); the id is
\* the AUTOINCREMENT sequence plus one.
CreateProject(projs, seq, req) ==
    IF ProjectNameTaken(projs, seq + 1, req.Name)
    THEN [projects |-> projs, seq |-> seq, err |-> "UNIQUE constraint failed"]
    ELSE [projects |-> WriteFile(projs, seq + 1,
                          [ID |-> seq + 1, Name |-> req.Name,
                           Description |-> req.Description, Domain |-> req.Domain,
                           NginxRaw |-> ""]),
          seq |-> seq + 1, err |-> ""]

UpdateProjectResetsRaw(projs, id, req) ==
    IF id \notin DOMAIN projs
    THEN [projects |-> projs, err |-> ""]
    ELSE IF ProjectNameTaken(projs, id, req.Name)
    THEN [projects |-> projs, err |-> "UNIQUE constraint failed"]
    ELSE [projects |-> [projs EXCEPT ![id] =
                          [@ EXCEPT !.Name = req.Name, !.Description = req.Description,
                                    !.Domain = req.Domain, !.NginxRaw = ""]],
          err |-> ""]

\* UpdateProject: UPDATE projects SET name, description, domain WHERE id; no
\* row is not an error.
UpdateProject(projs, id, req) ==
    IF id \notin DOMAIN projs
    THEN [projects |-> projs, err |-> ""]
    ELSE IF ProjectNameTaken(projs, id, req.Name)
    THEN [projects |-> projs, err |-> "UNIQUE constraint failed"]
    ELSE [projects |-> [projs EXCEPT ![id] =
                          [@ EXCEPT !.Name = req.Name, !.Description = req.Description,
                                    !.Domain = req.Domain]],
          err |-> ""]

\* UpdateProjectNginxRaw: UPDATE projects SET nginx_raw WHERE id.
UpdateProjectNginxRaw(projs, id, nginxRaw) ==
    IF id \notin DOMAIN projs
    THEN [projects |-> projs, err |-> ""]
    ELSE [projects |-> [projs EXCEPT ![id] = [@ EXCEPT !.NginxRaw = nginxRaw]], err |-> ""]

\* updated_at = time.Now() in the UPDATE of the row id.
SetUpdatedAt(projs, id, now) ==
    IF id \notin DOMAIN projs THEN projs
    ELSE [projs EXCEPT ![id] = [@ EXCEPT !.UpdatedAt = now]]

\* The INSERT of CreateService on a connection: without foreign keys the
\* project id is not looked up.
CreateServiceOn(fk, projs, svcs, id, req) ==
    CreateService(IF fk THEN projs ELSE WriteFile(projs, req.ProjectID, <<>>), svcs, id, req)

\* The DELETE of DeleteProject on a connection: ON DELETE CASCADE acts only
\* where foreign keys are enforced.
DeleteProjectOn(fk, projs, svcs, id) ==
    IF fk THEN DeleteProject(projs, svcs, id)
    ELSE [projects |-> RemoveFile(projs, id), services |-> svcs]

ProjectRequests ==
    { [Name |-> ProjectRow(i).Name, Description |-> "", Domain |-> "app.example"] :
        i \in 1..MaxProjectID }
    \cup { [Name |-> <<>>, Description |-> "", Domain |-> "app.example"] }

\* The ids asked for: those of the rows, and one that has no row.
ProjectIDs == DOMAIN projects \cup {db.seq + 1}
ServiceIDs == DOMAIN services \cup {nextID}

ServiceUpdates ==
    { r \in UpdateRequests : r.Config = "" /\ r.Command = <<<<"/", "usr", "bin", "true">>>> }

storeOther == <<mgr, siteFiles, unitFiles, dirs, settings, stream, cpuCache>>

\* A server just started on a database with all columns and no rows.
InitStore == InitStream

\* The effect of a statement that ran on connection c and returned r.
StoreReturns(op, c, id, req, r) ==
    /\ projects' = r.projects
    /\ services' = r.services
    /\ nextID' = r.nextID
    /\ db' = [AcquireConn(db, c) EXCEPT !.seq = r.seq]
    /\ call' = [op |-> op, conn |-> c, fk |-> ForeignKeys(db, c), id |-> id, req |-> req,
                err |-> r.err, before |-> [projects |-> projects, services |-> services]]
    /\ ops' = ops + 1
    /\ UNCHANGED storeOther

StoreCreateProject(c, req) ==
    /\ ops < MaxStoreOps
    /\ LET Added(r) == [projects |-> r.projects, services |-> services, nextID |-> nextID,
                           seq |-> r.seq, err |-> r.err]
       IN  StoreReturns("CreateProject", c, db.seq + 1, req,
                        Added(CreateProject(projects, db.seq, req)))

StoreUpdateProject(c, id, req) ==
    /\ ops < MaxStoreOps
    /\ LET Changed(r) == [projects |-> r.projects, services |-> services, nextID |-> nextID,
                          seq |-> db.seq, err |-> r.err]
       IN  StoreReturns("UpdateProject", c, id, req, Changed(UpdateProject(projects, id, req)))

StoreDeleteProject(c, id) ==
    /\ ops < MaxStoreOps
    /\ LET Deleted(r) == [projects |-> r.projects, services |-> r.services, nextID |-> nextID,
                          seq |-> db.seq, err |-> ""]
       IN  StoreReturns("DeleteProject", c, id, <<>>,
                        Deleted(DeleteProjectOn(ForeignKeys(db, c), projects, services, id)))

StoreCreateService(c, req) ==
    /\ ops < MaxStoreOps
    /\ LET Added(r) == [projects |-> projects, services |-> r.services, nextID |-> r.nextID,
                           seq |-> db.seq, err |-> r.err]
       IN  StoreReturns("CreateService", c, nextID, req,
                        Added(CreateServiceOn(ForeignKeys(db, c), projects, services,
                                                 nextID, req)))

StoreUpdateService(c, id, req) ==
    /\ ops < MaxStoreOps
    /\ LET Changed(r) == [projects |-> projects, services |-> r.services, nextID |-> nextID,
                          seq |-> db.seq, err |-> r.err]
       IN  StoreReturns("UpdateService", c, id, req, Changed(UpdateService(services, id, req)))

StoreDeleteService(c, id) ==
    /\ ops < MaxStoreOps
    /\ StoreReturns("DeleteService", c, id, <<>>,
                    [projects |-> projects, services |-> DeleteService(services, id),
                     nextID |-> nextID, seq |-> db.seq, err |-> ""])

NextStore ==
    \/ \E c \in PoolChoices(db), req \in ProjectRequests : StoreCreateProject(c, req)
    \/ \E c \in PoolChoices(db), id \in ProjectIDs, req \in ProjectRequests :
          StoreUpdateProject(c, id, req)
    \/ \E c \in PoolChoices(db), id \in ProjectIDs : StoreDeleteProject(c, id)
    \/ \E c \in PoolChoices(db), req \in CreateRequests : StoreCreateService(c, req)
    \/ \E c \in PoolChoices(db), id \in ServiceIDs, req \in ServiceUpdates :
          StoreUpdateService(c, id, req)
    \/ \E c \in PoolChoices(db), id \in ServiceIDs : StoreDeleteService(c, id)

SpecStore == InitStore /\ [][NextStore]_vars

-----------------------------------------------------------------------------
(* Properties of the store *)

StoreReturned ==
    call.op \in {"CreateProject", "UpdateProject", "DeleteProject", "CreateService",
                 "UpdateService", "DeleteService"}

NamesUnique(projs, svcs) ==
    /\ \A i \in DOMAIN projs : \A j \in DOMAIN projs : projs[i].Name = projs[j].Name => i = j
    /\ \A i \in DOMAIN svcs : \A j \in DOMAIN svcs :
          (svcs[i].ProjectID = svcs[j].ProjectID /\ svcs[i].Name = svcs[j].Name) => i = j

\* The statement of the last call would have given two rows one name.
WouldCollide ==
    \/ /\ call.op = "CreateProject"
       /\ \E i \in DOMAIN call.before.projects : call.before.projects[i].Name = call.req.Name
    \/ /\ call.op = "UpdateProject"
       /\ call.id \in DOMAIN call.before.projects
       /\ \E i \in DOMAIN call.before.projects :
             i # call.id /\ call.before.projects[i].Name = call.req.Name
    \/ /\ call.op = "CreateService"
       /\ \E i \in DOMAIN call.before.services :
             /\ call.before.services[i].ProjectID = call.req.ProjectID
             /\ call.before.services[i].Name = call.req.Name
    \/ /\ call.op = "UpdateService"
       /\ call.id \in DOMAIN call.before.services
       /\ \E i \in DOMAIN call.before.services :
             /\ i # call.id
             /\ call.before.services[i].ProjectID = call.before.services[call.id].ProjectID
             /\ call.before.services[i].Name = call.req.Name

StoreUnchanged == projects = call.before.projects /\ services = call.before.services

\* C13: after any sequence of the six store operations no two projects share
\* a name and no two services of one project share a name; a create or update
\* that would break this returns an error and leaves both tables as they were.
C13_NamesUnique ==
    /\ NamesUnique(projects, services)
    /\ (StoreReturned /\ WouldCollide) => (call.err # "" /\ StoreUnchanged)
    /\ (StoreReturned /\ call.err # "") => StoreUnchanged

C13_Witness ==
    /\ call.op = "UpdateService"
    /\ WouldCollide
    /\ call.err # ""
    /\ Cardinality(DOMAIN services) = 2

\* The store refused the insert of the last API create as a duplicate.
DuplicateRefused ==
    /\ CreateServiceReturned
    /\ call.via = "api"
    /\ call.trace[1] = Step("CreateService", "UNIQUE constraint failed")

\* C14: a create through the JSON API that the store refuses as a duplicate
\* of (project_id, name) is answered with status 409.
C14_DuplicateAnsweredConflict == DuplicateRefused => call.status = 409

NoOrphanRows == \A i \in DOMAIN services : services[i].ProjectID \in DOMAIN projects

OtherProjectsUntouched ==
    \A i \in DOMAIN call.before.services :
        call.before.services[i].ProjectID # call.id
            => (i \in DOMAIN services /\ services[i] = call.before.services[i])

\* C15: every service row references a project that exists; after
\* DeleteProject(id) no service row of project id remains,
\* ListServicesByProject(id) is empty and the rows of other projects are as
\* they were.
C15_CascadeNoOrphans ==
    /\ NoOrphanRows
    /\ call.op = "DeleteProject" =>
          /\ call.id \notin DOMAIN projects
          /\ ListServicesByProject(services, call.id) = <<>>
          /\ \A i \in DOMAIN services : services[i].ProjectID # call.id
          /\ OtherProjectsUntouched

-----------------------------------------------------------------------------
(* internal/storage/db.go: a database file opened, used and opened again   *)

MaxMigrateOps == 4

\* A row of the flat projects table of the first version.
LegacyRow == [ID |-> 1, Name |-> ProjectRow(1).Name, Command |-> <<<<"/", "usr", "bin", "true">>>>]

\* The files a server is started on: none, one left by the first version
\* (empty or with a row), and one at the latest shape (empty or with rows).
PopulatedRows ==
    [projects |-> WriteFile(NoFiles, 1, ProjectRow(1)),
     services |-> CreateService(WriteFile(NoFiles, 1, ProjectRow(1)), NoFiles, 1,
                                SeedRequest("db", "")).services,
     settings |-> WriteFile(NoFiles, "distro", "debian"), nextID |-> 2]

NoRows == [projects |-> NoFiles, services |-> NoFiles, settings |-> NoFiles, nextID |-> 1]

DatabaseFiles ==
    { [db |-> EmptyDB, rows |-> NoRows],
      [db |-> V1DB, rows |-> NoRows],
      [db |-> V1DB, rows |-> [NoRows EXCEPT !.projects = WriteFile(NoFiles, 1, LegacyRow)]],
      [db |-> LatestDB, rows |-> NoRows],
      [db |-> [LatestDB EXCEPT !.seq = 1], rows |-> PopulatedRows] }

migrateOther == <<mgr, siteFiles, unitFiles, dirs, stream, cpuCache>>

InitMigrate ==
    /\ mgr = NewManager
    /\ siteFiles = NoFiles
    /\ unitFiles = NoFiles
    /\ dirs = {}
    /\ \E f \in DatabaseFiles :
          /\ db = f.db
          /\ projects = f.rows.projects
          /\ services = f.rows.services
          /\ settings = f.rows.settings
          /\ nextID = f.rows.nextID
    /\ call = NoCall
    /\ ops = 0
    /\ NoProcess

Snapshot == [db |-> db, projects |-> projects, services |-> services, settings |-> settings]

\* A statement of repository.go names columns; it fails on a table that
\* lacks one of them.
MissingColumn(d, table, columns) ==
    table \notin DOMAIN d.tables \/ ~(columns \subseteq d.tables[table])

\* The effect of storage.New returning r.
OpenReturns(r) ==
    /\ db' = r.db
    /\ projects' = r.projects
    /\ call' = [op |-> "New", err |-> r.err, before |-> Snapshot]
    /\ ops' = ops + 1
    /\ UNCHANGED <<services, settings, nextID, migrateOther>>

\* The server starts: storage.New on the file.
OpenStore ==
    /\ ops < MaxMigrateOps
    /\ ~db.open
    /\ OpenReturns(New(db, projects))

\* The server stops: Storage.Close.
CloseStore ==
    /\ db.open
    /\ db' = Close(db)
    /\ call' = [op |-> "Close", err |-> "", before |-> Snapshot]
    /\ UNCHANGED <<projects, services, settings, nextID, ops, migrateOther>>

\* The effect of a statement of the open store returning r.
StatementReturns(op, req, r) ==
    /\ projects' = r.projects
    /\ services' = r.services
    /\ settings' = r.settings
    /\ nextID' = r.nextID
    /\ db' = [db EXCEPT !.seq = r.seq]
    /\ call' = [op |-> op, req |-> req, err |-> r.err, before |-> Snapshot]
    /\ ops' = ops + 1
    /\ UNCHANGED migrateOther

Refused(err) ==
    [projects |-> projects, services |-> services, settings |-> settings,
     nextID |-> nextID, seq |-> db.seq, err |-> err]

MigratedCreateProject(req) ==
    /\ ops < MaxMigrateOps
    /\ db.open
    /\ LET Added(r) == [Refused(r.err) EXCEPT !.projects = r.projects, !.seq = r.seq]
       IN  StatementReturns("CreateProject", req,
               IF MissingColumn(db, "projects", CreateProjectColumns)
               THEN Refused("table projects has no column named domain")
               ELSE Added(CreateProject(projects, db.seq, req)))

MigratedCreateService(req) ==
    /\ ops < MaxMigrateOps
    /\ db.open
    /\ LET Added(r) == [Refused(r.err) EXCEPT !.services = r.services, !.nextID = r.nextID]
       IN  StatementReturns("CreateService", req,
               IF MissingColumn(db, "services", CreateServiceColumns)
               THEN Refused("table services has no column named port")
               ELSE Added(CreateService(projects, services, nextID, req)))

UpsertSettingKeepsOld(rows, key, value) ==
    IF key \in DOMAIN rows THEN rows ELSE WriteFile(rows, key, value)

\* INSERT INTO settings (key, value) ... ON CONFLICT(key) DO UPDATE SET value
UpsertSetting(rows, key, value) == WriteFile(rows, key, value)

\* GetSetting: the value of the row, "" when there is no row.
GetSetting(rows, key) == IF key \in DOMAIN rows THEN rows[key] ELSE ""

\* SetSetting: INSERT ... ON CONFLICT(key) DO UPDATE
SetSetting(key, value) ==
    /\ ops < MaxMigrateOps
    /\ db.open
    /\ StatementReturns("SetSetting", <<key, value>>,
           IF MissingColumn(db, "settings", SettingsColumns)
           THEN Refused("no such table: settings")
           ELSE [Refused("") EXCEPT !.settings = UpsertSetting(settings, key, value)])

\* GetSetting of the open store.
ReadSetting(key) ==
    /\ db.open
    /\ call.op # "GetSetting"
    /\ call' = [op |-> "GetSetting", req |-> <<key>>, err |-> "",
                value |-> GetSetting(settings, key), before |-> Snapshot]
    /\ UNCHANGED <<db, projects, services, settings, nextID, ops, migrateOther>>

SettingKeys == {"distro", "theme"}

NextMigrate ==
    \/ OpenStore
    \/ CloseStore
    \/ \E req \in ProjectRequests : MigratedCreateProject(req)
    \/ \E req \in CreateRequests : MigratedCreateService(req)
    \/ \E key \in SettingKeys, value \in Distros : SetSetting(key, value)
    \/ \E key \in SettingKeys : ReadSetting(key)

SpecMigrate == InitMigrate /\ [][NextMigrate]_vars

-----------------------------------------------------------------------------
(* Properties of the migration *)

NeededColumns ==
    [projects |-> {"domain", "nginx_raw"},
     services |-> {"port", "systemd_raw", "nginx_raw"},
     settings |-> SettingsColumns]

SchemaComplete(d) ==
    \A t \in DOMAIN NeededColumns : t \in DOMAIN d.tables /\ NeededColumns[t] \subseteq d.tables[t]

\* The first call on a file is its first open.
FirstOpen == call.op = "New" /\ ops = 1

ColumnRefusals ==
    {"table projects has no column named domain", "table services has no column named port",
     "no such table: settings"}

\* C16: the first open of a new, a v1 or a latest database succeeds and
\* leaves every needed column and the settings table, and the statement that
\* follows it is not refused for a missing column or table.
C16_FirstOpenCompletes ==
    /\ FirstOpen => (call.err = "" /\ db.open /\ SchemaComplete(db))
    /\ (ops = 2 /\ call.op \in {"CreateProject", "CreateService", "SetSetting"})
          => call.err \notin ColumnRefusals

\* The file of the last open had been opened before.
Reopened ==
    call.op = "New" /\ (ops >= 2 \/ call.before.db.tables = LatestDB.tables)

KeepsSchema(old, new) ==
    /\ \A t \in DOMAIN old.tables : t \in DOMAIN new.tables /\ old.tables[t] \subseteq new.tables[t]
    /\ old.indexes \subseteq new.indexes

Schema(d) == [tables |-> d.tables, indexes |-> d.indexes]

\* C17: an open of a file that was opened before drops, renames and recreates
\* no table, keeps every column and every project, service, setting and
\* legacy row, and an open after it leaves the schema as it is.
C17_ReopenKeepsEverything ==
    Reopened =>
        /\ KeepsSchema(call.before.db, db)
        /\ projects = call.before.projects
        /\ services = call.before.services
        /\ settings = call.before.settings
        /\ db.legacy = call.before.db.legacy
        /\ Schema(New(Close(db), projects).db) = Schema(db)

C17_Witness ==
    /\ Reopened
    /\ call.err = ""
    /\ settings # NoFiles
    /\ "domain" \notin call.before.db.tables["projects"]
    /\ "domain" \in db.tables["projects"]

-----------------------------------------------------------------------------
(* internal/systemd/generator.go: GenerateServiceFile over service records *)

GenCommands ==
    { <<>>, <<<<".", "run.sh">>, <<"--port">>, <<"8080">>>>, <<<<"run.sh">>>>,
      <<<<"/", "usr", "bin", "true">>, <<"-v">>>> }

GenServices ==
    [Name : ServiceNames, Type : {"", "custom", "django"}, Command : GenCommands,
     WorkingDir : {<<>>, <<"/", "srv", "app">>}, User : {"", "www-data"},
     Environment : {<<>>, <<<<"DEBUG", "=", "0">>>>}, AutoRestart : BOOLEAN,
     Config : {"", ConfigWorkers4}, SystemdRaw : {"", "raw unit"}]
    \cup
    [Name : ServiceNames, Type : {"postgres"},
     Command : {<<>>, <<<<"/", "usr", "bin", "true">>, <<"-v">>>>},
     WorkingDir : {<<>>, <<"/", "srv", "app">>}, User : {"postgres"},
     Environment : {<<>>, <<<<"DEBUG", "=", "0">>>>}, AutoRestart : {TRUE},
     Config : {"", ConfigPostgres}, SystemdRaw : {"", "raw unit"}]

genOther == <<mgr, siteFiles, unitFiles, dirs, projects, services, nextID, db, settings,
              stream, cpuCache, ops>>

\* The unit preview: GenerateServiceFile of a record, nothing written.
Generate(service) ==
    /\ call' = [op |-> "GenerateServiceFile", service |-> service,
                out |-> GenerateServiceFile(service)]
    /\ UNCHANGED genOther

NextGen == \E service \in GenServices : Generate(service)

SpecGen == InitStream /\ [][NextGen]_vars

-----------------------------------------------------------------------------
(* Properties of the unit text *)

Generated == call.op = "GenerateServiceFile"

\* The fields the raw override is said to make irrelevant.
SameButOverridden(s, t) == s.Name = t.Name /\ s.Config = t.Config /\ s.SystemdRaw = t.SystemdRaw

\* C18: a service with a non-empty systemd_raw gets exactly systemd_raw as its
\* unit, whatever its type, command, environment, working_dir, user and
\* auto_restart are.
C18_OverrideSupremacy ==
    (Generated /\ call.service.SystemdRaw # "") =>
        /\ call.out = [raw |-> call.service.SystemdRaw]
        /\ \A t \in GenServices :
              SameButOverridden(call.service, t) => GenerateServiceFile(t) = call.out

C18_Witness ==
    /\ Generated
    /\ call.service.SystemdRaw = "raw unit"
    /\ call.service.Type = "django"
    /\ call.service.Command = <<>>

BlueprintInEffect(service) == service.Type # "" /\ RegistryGet(service.Type)

Synthesized == Generated /\ call.service.SystemdRaw = ""

EffectiveWorkingDir(service) ==
    IF service.WorkingDir = <<>> THEN <<"/">> ELSE service.WorkingDir

\* C20: without raw override and without blueprint, a command whose first
\* token is not absolute gets that token joined to the working directory
\* ("/" when none is set) and keeps its other tokens; a command whose first
\* token is absolute is emitted as it is.
C20_RelativeCommandResolved ==
    (Synthesized /\ ~BlueprintInEffect(call.service) /\ call.service.Command # <<>>) =>
        /\ "ExecStart" \in DOMAIN call.out
        /\ Len(call.out.ExecStart) = Len(call.service.Command)
        /\ Tail(call.out.ExecStart) = Tail(call.service.Command)
        /\ call.out.ExecStart[1] =
              IF call.service.Command[1][1] = "/" THEN call.service.Command[1]
              ELSE FilepathJoin(EffectiveWorkingDir(call.service), call.service.Command[1])

C20_Witness ==
    /\ Synthesized
    /\ call.service.Type = "custom"
    /\ call.service.WorkingDir = <<>>
    /\ call.out.ExecStart = <<<<"/", "run.sh">>, <<"--port">>, <<"8080">>>>

-----------------------------------------------------------------------------
(* internal/http/handlers.go, GET /api/nginx/{id}/preview: the site a       *)
(* project of the store would get                                           *)

\* GetProject: the row with its services, by name ascending.
GetProject(projs, svcs, id) ==
    [ID |-> id, Name |-> projs[id].Name, Description |-> projs[id].Description,
     Domain |-> projs[id].Domain, NginxRaw |-> projs[id].NginxRaw,
     Services |-> ListServicesByProject(svcs, id)]

PreviewIDs == {1, 2, 12}

PreviewNames ==
    { <<"M", "y", " ", "A", "p", "p", " ", "#", "1">>, <<"2", "x">>, <<"x">>, <<"X">> }

PreviewProjects ==
    [ID : PreviewIDs, Name : PreviewNames, Description : {""},
     Domain : {"", "app.example"}, NginxRaw : {"", "raw site"}]

PreviewPorts == {0, 8080, 9000}

\* The service tables of a project: each name of NameOrder absent or present
\* with a port, the ids given in creation order, which is the order of the
\* names or its reverse.
ServiceTables(projectID) ==
    LET names == Range(NameOrder)
        Row(n, port, id) == [ID |-> id, ProjectID |-> projectID, Name |-> n, Port |-> port]
        Rank(present, n, reversed) ==
            LET below == Cardinality({m \in present : IndexOf(NameOrder, m) < IndexOf(NameOrder, n)})
            IN  IF reversed THEN Cardinality(present) - below ELSE below + 1
        Table(ports, present, reversed) ==
            [id \in 1..Cardinality(present) |->
                LET n == CHOOSE m \in present : Rank(present, m, reversed) = id
                IN  Row(n, ports[n], id)]
    IN  { Table(ports, present, reversed) :
            ports \in [names -> PreviewPorts], present \in SUBSET names, reversed \in BOOLEAN }

previewOther == <<mgr, siteFiles, unitFiles, dirs, projects, services, nextID, db, settings,
                  stream, cpuCache, ops>>

\* A running server with one project, its services, and the nginx manager
\* as NewManager or Configure left it.
InitPreview ==
    /\ mgr \in {NewManager} \cup {ConfigureDirs(distro) : distro \in Distros}
    /\ siteFiles = NoFiles
    /\ unitFiles = NoFiles
    /\ dirs = {}
    /\ \E project \in PreviewProjects :
          /\ projects = WriteFile(NoFiles, project.ID, project)
          /\ services \in ServiceTables(project.ID)
    /\ nextID = Cardinality(DOMAIN services) + 1
    /\ call = NoCall
    /\ ops = 0
    /\ StoreOpened
    /\ NoProcess

\* The preview of project id: generated configuration, path, installed.
PreviewSite(id) ==
    /\ id \in DOMAIN projects
    /\ call' = [op |-> "PreviewSite", project |-> GetProject(projects, services, id),
                out |-> GenerateSiteConfig(GetProject(projects, services, id)),
                status |-> IF GenerateSiteConfig(GetProject(projects, services, id)).err # ""
                           THEN 400 ELSE 200,
                path |-> SiteConfigPath(mgr, GetProject(projects, services, id))]
    /\ UNCHANGED previewOther

NextPreview == \E id \in PreviewIDs : PreviewSite(id)

SpecPreview == InitPreview /\ [][NextPreview]_vars

-----------------------------------------------------------------------------
(* Properties of the generated site *)

Previewed == call.op = "PreviewSite"

\* C21: a non-empty nginx_raw is the configuration, whatever domain and
\* services are; without nginx_raw and without domain there is an error and
\* no configuration; without nginx_raw and with a domain there is a generated
\* server block for that domain.
C21_SiteGenerationDecision ==
    Previewed =>
        CASE call.project.NginxRaw # "" ->
                call.out = [config |-> call.project.NginxRaw, err |-> ""]
          [] call.project.NginxRaw = "" /\ call.project.Domain = "" ->
                call.out.err # "" /\ call.out.config = ""
          [] OTHER ->
                /\ call.out.err = ""
                /\ call.out.config.kind = "default"
                /\ call.out.config.server_name = call.project.Domain

C21_Witness ==
    /\ Previewed
    /\ call.project.NginxRaw # ""
    /\ call.project.Domain = ""
    /\ call.project.Services # <<>>
    /\ call.out.config = call.project.NginxRaw

DefaultGenerated == Previewed /\ call.out.err = "" /\ call.project.NginxRaw = ""

\* The rows of the project in the table, and those with a port.
RowsOf(id) == {i \in DOMAIN services : services[i].ProjectID = id}
RowsWithPort(id) == {i \in RowsOf(id) : services[i].Port > 0}

\* C22: the generated default site proxies to the port of the service that
\* comes first by name among those with port > 0, and to 8000 when the
\* project has no such service.
C22_PrimaryPort ==
    DefaultGenerated =>
        IF RowsWithPort(call.project.ID) = {}
        THEN call.out.config.proxy_port = 8000
        ELSE \E i \in RowsWithPort(call.project.ID) :
                /\ call.out.config.proxy_port = services[i].Port
                /\ \A j \in RowsWithPort(call.project.ID) :
                      IndexOf(NameOrder, services[i].Name) <= IndexOf(NameOrder, services[j].Name)

C22_Witness ==
    /\ DefaultGenerated
    /\ Len(call.project.Services) = 3
    /\ call.project.Services[1].Port = 0
    /\ call.project.Services[2].Port = 9000
    /\ call.project.Services[3].Port = 8080
    /\ services[1].Name = "web"
    /\ call.out.config.proxy_port = 9000

\* The name of the file, without directory.
FileNameOf(path) == PathBase(path)

\* The runes between "servio-<id>-" and ".conf".
Suffix(project, path) ==
    SubSeq(FileNameOf(path), 2 + Len(FormatInt(project.ID)) + 1, Len(FileNameOf(path)) - 1)

\* C23: the path is <active dir>/servio-<id>-<sanitized name>.conf, the
\* sanitized name holds only runes of [a-z0-9-], "My App #1" gives
\* "my-app-1", and projects with different ids get different paths.
C23_SiteFileName ==
    Previewed =>
        /\ PathDir(call.path) = mgr.sitesAvailableDir
        /\ FileNameOf(call.path)[1] = "servio-"
        /\ FileNameOf(call.path)[Len(FileNameOf(call.path))] = ".conf"
        /\ \A i \in 1..Len(Suffix(call.project, call.path)) :
              Suffix(call.project, call.path)[i] \in LowerLetters \cup DigitRunes \cup {"-"}
        /\ call.project.Name = <<"M", "y", " ", "A", "p", "p", " ", "#", "1">>
              => Suffix(call.project, call.path) = <<"m", "y", "-", "a", "p", "p", "-", "1">>
        /\ \A other \in PreviewProjects :
              other.ID # call.project.ID => SiteConfigPath(mgr, other) # call.path

C23_Witness ==
    /\ Previewed
    /\ call.project.ID = 12
    /\ call.project.Name = <<"M", "y", " ", "A", "p", "p", " ", "#", "1">>
    /\ mgr.sitesEnabledDir # ""
    /\ call.path = <<"/etc/nginx/sites-available",
                     <<"servio-", "1", "2", "-", "m", "y", "-", "a", "p", "p", "-", "1", ".conf">>>>

-----------------------------------------------------------------------------
(* Validation in the create handlers *)

BadURLSubmitted ==
    /\ CreateServiceReturned
    /\ call.req.GitRepoURL # <<>>
    /\ ~isValidGitURL(call.req.GitRepoURL)

\* C24: a create request whose repository URL has none of the five prefixes
\* is answered with a 400-class status, nothing is stored and nothing is
\* cloned or installed.
C24_BadURLRejected ==
    BadURLSubmitted =>
        /\ call.status \in 400..499
        /\ call.id \notin DOMAIN services
        /\ "InstallService" \notin Range(StepNames(call.trace))

\* C25: no project row has an empty name, and a CreateProject or
\* UpdateProject with an empty name returns an error and leaves the tables as
\* they were.
C25_NoEmptyProjectName ==
    /\ \A i \in DOMAIN projects : projects[i].Name # <<>>
    /\ (call.op \in {"CreateProject", "UpdateProject"} /\ call.req.Name = <<>>)
          => (call.err # "" /\ StoreUnchanged)

-----------------------------------------------------------------------------
(* Properties of UninstallSite *)

UninstallSiteReturned == call.op = "UninstallSite"

SiteInstalledBefore == SiteConfigPath(mgr, call.project) \in DOMAIN call.before

\* C26: UninstallSite removes the symlink first when the symlink layout is
\* active, then the file, then reloads; on a site that is not installed it
\* fails only when the reload fails; after a call without error the site
\* does not exist, and the same call again succeeds and changes no file.
C26_UninstallSiteIdempotent ==
    UninstallSiteReturned =>
        /\ call.trace \in
              { (IF SymlinkLayout THEN <<"unlink">> ELSE <<>>) \o rest :
                   rest \in {<<"remove">>, <<"remove", "reload">>} }
        /\ (~SiteInstalledBefore /\ call.failAt # "reload") => call.err = ""
        /\ call.err = "" =>
              /\ "reload" \in Range(call.trace)
              /\ ~SiteExists(mgr, siteFiles, call.project)
              /\ UninstallSite(mgr, siteFiles, call.project, "none").err = ""
              /\ UninstallSite(mgr, siteFiles, call.project, "none").files = siteFiles

C26_Witness ==
    /\ UninstallSiteReturned
    /\ SymlinkLayout
    /\ ~SiteInstalledBefore
    /\ call.before # NoFiles
    /\ call.err = ""

-----------------------------------------------------------------------------
(* Properties of the settings *)

SettingSaved == call.op = "SetSetting" /\ call.err = ""

\* C27: GetSetting gives "" for a key without row and the value last set
\* otherwise; SetSetting succeeds on the open store for a new and for an
\* existing key, makes its value the one GetSetting returns and leaves the
\* value of every other key as it was.
C27_SettingsUpsert ==
    /\ call.op = "GetSetting" =>
          call.value = (IF call.req[1] \in DOMAIN settings THEN settings[call.req[1]] ELSE "")
    /\ call.op = "SetSetting" =>
          /\ call.err = ""
          /\ GetSetting(settings, call.req[1]) = call.req[2]
          /\ \A k \in SettingKeys \ {call.req[1]} :
                GetSetting(settings, k) = GetSetting(call.before.settings, k)
          /\ DOMAIN settings = DOMAIN call.before.settings \cup {call.req[1]}

C27_Witness ==
    /\ SettingSaved
    /\ call.req[1] \in DOMAIN call.before.settings
    /\ call.before.settings[call.req[1]] # call.req[2]
    /\ DOMAIN settings = SettingKeys

-----------------------------------------------------------------------------
(* InstallService when the reload fails *)

ReloadFailed ==
    /\ InstallServiceReturned
    /\ call.failAt = "reload"
    /\ call.trace[Len(call.trace)] = "reload"

\* C28: when the reload that ends InstallService fails, the call returns
\* an error and the unit file written just before stays in place with the
\* content synthesized by this call.
C28_ReloadFailureKeepsUnit ==
    ReloadFailed =>
        /\ call.err # ""
        /\ ServicePath(call.service) \in DOMAIN unitFiles
        /\ unitFiles[ServicePath(call.service)] = GenerateServiceFile(call.service)
        /\ \A p \in DOMAIN call.before.files \ {ServicePath(call.service)} :
              p \in DOMAIN unitFiles /\ unitFiles[p] = call.before.files[p]

\* The reload failed after the unit of an installed service was rewritten
\* with other content.
C28_Witness ==
    /\ ReloadFailed
    /\ ServicePath(call.service) \in DOMAIN call.before.files
    /\ call.before.files[ServicePath(call.service)] # GenerateServiceFile(call.service)

-----------------------------------------------------------------------------
(* internal/monitor/stats.go: GetStats called from parallel requests *)

\* The goroutines inside getLinuxServiceStats and the calls each may start.
Goroutines == {1, 2}
MaxParallelCalls == 2

\* A goroutine outside the function.
Idle == [pc |-> "idle", names |-> <<>>, ns |-> 0, now |-> 0, cpu |-> ZeroPercent]

\* The pair a goroutine stores: both fields from its own locals of this
\* iteration, in a struct allocated for the store and never written again.
StoreOwnTorn(cache, c) ==
    WriteFile(cache, Head(c.names),
              [lastNS |-> c.ns,
               lastTime |-> IF Head(c.names) \in DOMAIN cache
                            THEN cache[Head(c.names)].lastTime ELSE c.now])

StoreOwn(cache, c) == StoreEntry(cache, Head(c.names), c.ns, c.now)

parallelOther == <<mgr, siteFiles, unitFiles, dirs, projects, services, nextID, db, settings,
                   stream>>

InitParallel ==
    /\ mgr = NewManager
    /\ siteFiles = NoFiles
    /\ unitFiles = NoFiles
    /\ dirs = {}
    /\ projects = NoFiles
    /\ services = NoFiles
    /\ nextID = 1
    /\ call = [op |-> "ParallelGetStats", callers |-> [g \in Goroutines |-> Idle],
               clock |-> 0, observed |-> {}, last |-> [name |-> <<>>, before |-> NoFiles]]
    /\ ops = 0
    /\ StoreOpened
    /\ NoProcess

\* One step of goroutine g leaves it with the locals c.
Steps(g, c, cache, clock, observed, last) ==
    /\ call' = [call EXCEPT !.callers[g] = c, !.clock = clock, !.observed = observed,
                            !.last = last]
    /\ cpuCache' = cache
    /\ UNCHANGED parallelOther

\* The end of one iteration of the loop over serviceNames.
NextName(c) ==
    IF Len(c.names) > 1 THEN [Idle EXCEPT !.pc = "show", !.names = Tail(c.names)] ELSE Idle

\* A request enters getLinuxServiceStats.
EnterGetStats(g, serviceNames) ==
    /\ ops < MaxParallelCalls
    /\ call.callers[g].pc = "idle"
    /\ ops' = ops + 1
    /\ Steps(g, [Idle EXCEPT !.pc = "show", !.names = serviceNames], cpuCache, call.clock,
             call.observed, call.last)

\* systemctl show answers with cpuNS, or fails and the loop continues.
Show(g, ok, cpuNS) ==
    /\ call.callers[g].pc = "show"
    /\ UNCHANGED ops
    /\ Steps(g, IF ok THEN [call.callers[g] EXCEPT !.pc = "now", !.ns = cpuNS]
                ELSE NextName(call.callers[g]),
             cpuCache, call.clock, call.observed, call.last)

\* now := time.Now(): this completes the observation (cpuNS, now) of the unit.
Now(g, now) ==
    /\ call.callers[g].pc = "now"
    /\ now \in {call.clock, call.clock + 1}
    /\ UNCHANGED ops
    /\ Steps(g, [call.callers[g] EXCEPT !.pc = "load", !.now = now], cpuCache, now,
             call.observed \cup {[name |-> Head(call.callers[g].names),
                                  lastNS |-> call.callers[g].ns, lastTime |-> now]},
             call.last)

\* serviceCPUMap.Load(name) and the share computed from the entry loaded.
Load(g) ==
    /\ call.callers[g].pc = "load"
    /\ UNCHANGED ops
    /\ Steps(g, [call.callers[g] EXCEPT
                    !.pc = "store",
                    !.cpu = CPUUsage(cpuCache, Head(call.callers[g].names),
                                     call.callers[g].ns, call.callers[g].now)],
             cpuCache, call.clock, call.observed, call.last)

\* serviceCPUMap.Store(name, &cpuEntry{...}), then the next name or return.
Store(g) ==
    /\ call.callers[g].pc = "store"
    /\ UNCHANGED ops
    /\ Steps(g, NextName(call.callers[g]), StoreOwn(cpuCache, call.callers[g]), call.clock,
             call.observed,
             [name |-> Head(call.callers[g].names), before |-> cpuCache])

NextParallel ==
    \/ \E g \in Goroutines, serviceNames \in StatsRequests : EnterGetStats(g, serviceNames)
    \/ \E g \in Goroutines, ok \in BOOLEAN, cpuNS \in {0, MaxNS} : Show(g, ok, cpuNS)
    \/ \E g \in Goroutines, now \in 0..MaxTime : Now(g, now)
    \/ \E g \in Goroutines : Load(g)
    \/ \E g \in Goroutines : Store(g)

SpecParallel == InitParallel /\ [][NextParallel]_vars

InGetStats(g) == call.op = "ParallelGetStats" /\ call.callers[g].pc # "idle"

\* C29: under every interleaving of parallel calls each entry of the cache
\* is the (lastNS, lastTime) pair of one single observation of its unit, and
\* a store for one unit leaves the entry of every other unit as it was.
C29_CacheSafeInParallel ==
    call.op = "ParallelGetStats" =>
        /\ \A name \in DOMAIN cpuCache :
              [name |-> name, lastNS |-> cpuCache[name].lastNS,
               lastTime |-> cpuCache[name].lastTime] \in call.observed
        /\ \A name \in (DOMAIN cpuCache \cup DOMAIN call.last.before) \ {call.last.name} :
              /\ name \in DOMAIN call.last.before
              /\ name \in DOMAIN cpuCache
              /\ cpuCache[name] = call.last.before[name]

\* Two calls observed the same unit at different instants with different
\* readings and stored in the order opposite to their observations, while
\* the other unit is cached as well.
C29_Witness ==
    /\ call.op = "ParallelGetStats"
    /\ call.last.name = UnitA
    /\ UnitA \in DOMAIN call.last.before
    /\ UnitB \in DOMAIN cpuCache
    /\ cpuCache[UnitA].lastTime < call.last.before[UnitA].lastTime
    /\ cpuCache[UnitA].lastNS # call.last.before[UnitA].lastNS
    /\ \E g \in Goroutines : InGetStats(g)

-----------------------------------------------------------------------------
(* The unit of a postgres service *)

\* A postgres service left to its blueprint: no command, no raw unit.
PostgresManaged ==
    /\ Generated
    /\ call.service.Type = "postgres"
    /\ call.service.Command = <<>>
    /\ call.service.SystemdRaw = ""

\* The arguments a b occur next to each other in the command.
HasArgument(command, a, b) ==
    \E i \in 1..(Len(command) - 1) : command[i] = <<a>> /\ command[i + 1] = <<b>>

\* C30: the unit synthesized for a postgres service without command and raw
\* unit takes the port from db_port of the config: with db_port 6543 and
\* max_connections 200 ExecStart has "-p 6543" and "-c max_connections=200"
\* and the environment has PGPORT=6543; without db_port ExecStart has no -p
\* and the environment has PGPORT=5432.
C30_PostgresConfigOverride ==
    PostgresManaged =>
        /\ call.service.Config = ConfigPostgres =>
              /\ HasArgument(call.out.ExecStart, "-p", "6543")
              /\ HasArgument(call.out.ExecStart, "-c", "max_connections=200")
              /\ <<"PGPORT", "=", "6543">> \in Range(call.out.Environment)
        /\ call.service.Config = "" =>
              /\ <<"-p">> \notin Range(call.out.ExecStart)
              /\ <<"PGPORT", "=", "5432">> \in Range(call.out.Environment)

-----------------------------------------------------------------------------
(* internal/storage/repository.go: the two updates of a project row *)

MaxProjectOps == 3

\* The columns created_at and updated_at of a row inserted at the instant t.
Stamped(row, t) ==
    [ID |-> row.ID, Name |-> row.Name, Description |-> row.Description,
     Domain |-> row.Domain, NginxRaw |-> row.NginxRaw, CreatedAt |-> t, UpdatedAt |-> t]

\* Two projects created at the instant 0, the first with a service and a
\* verbatim site.
StampedProjects ==
    [i \in 1..2 |-> Stamped([ProjectRow(i) EXCEPT !.NginxRaw = IF i = 1 THEN "raw site" ELSE ""],
                            0)]

StampedServices ==
    CreateService(StampedProjects, NoFiles, 1,
                  CHOOSE r \in CreateRequests : r.ProjectID = 1 /\ r.Name = "web").services

ProjectUpdates ==
    { [Name |-> req.Name, Description |-> d, Domain |-> dom] :
        req \in ProjectRequests, d \in {"", "about"}, dom \in {"", "app.example"} }

projectOther == <<mgr, siteFiles, unitFiles, dirs, nextID, db, settings, stream, cpuCache>>

InitProject ==
    /\ mgr = NewManager
    /\ siteFiles = NoFiles
    /\ unitFiles = NoFiles
    /\ dirs = {}
    /\ projects = StampedProjects
    /\ services = StampedServices
    /\ nextID = 2
    /\ call = NoCall
    /\ ops = 0
    /\ StoreOpened
    /\ NoProcess

\* The statement ran at the instant ops + 1 and returned r.
ProjectReturns(op, id, req, r) ==
    /\ projects' = (IF r.err = "" THEN SetUpdatedAt(r.projects, id, ops + 1) ELSE r.projects)
    /\ call' = [op |-> op, id |-> id, req |-> req, err |-> r.err,
                before |-> [projects |-> projects, services |-> services]]
    /\ ops' = ops + 1
    /\ UNCHANGED <<services, projectOther>>

ProjectUpdate(id, req) ==
    /\ ops < MaxProjectOps
    /\ ProjectReturns("UpdateProject", id, req, UpdateProject(projects, id, req))

ProjectUpdateNginxRaw(id, nginxRaw) ==
    /\ ops < MaxProjectOps
    /\ ProjectReturns("UpdateProjectNginxRaw", id, nginxRaw,
                      UpdateProjectNginxRaw(projects, id, nginxRaw))

NextProject ==
    \/ \E id \in 1..3, req \in ProjectUpdates : ProjectUpdate(id, req)
    \/ \E id \in 1..3, nginxRaw \in {"", "raw site", "other site"} :
          ProjectUpdateNginxRaw(id, nginxRaw)

SpecProject == InitProject /\ [][NextProject]_vars

ProjectColumns == {"ID", "Name", "Description", "Domain", "NginxRaw", "CreatedAt", "UpdatedAt"}

\* The columns of the row id that differ from what they were before the call.
ChangedColumns(id) ==
    {c \in ProjectColumns : projects[id][c] # call.before.projects[id][c]}

\* Every row but id is as it was before the call, and so is every service.
OthersKept(id) ==
    /\ DOMAIN projects = DOMAIN call.before.projects
    /\ \A i \in DOMAIN projects \ {id} : projects[i] = call.before.projects[i]
    /\ services = call.before.services

\* C31: UpdateProject changes at most name, description, domain and
\* updated_at of the row id, UpdateProjectNginxRaw at most nginx_raw and
\* updated_at; every other column of the row, every other project and
\* every service is as it was.
C31_ProjectMutatorFrame ==
    /\ call.op = "UpdateProject" =>
          /\ OthersKept(call.id)
          /\ call.id \in DOMAIN projects =>
                ChangedColumns(call.id) \subseteq {"Name", "Description", "Domain", "UpdatedAt"}
          /\ (call.id \in DOMAIN projects /\ call.err = "") =>
                /\ projects[call.id].Name = call.req.Name
                /\ projects[call.id].Description = call.req.Description
                /\ projects[call.id].Domain = call.req.Domain
    /\ call.op = "UpdateProjectNginxRaw" =>
          /\ OthersKept(call.id)
          /\ call.id \in DOMAIN projects =>
                /\ ChangedColumns(call.id) \subseteq {"NginxRaw", "UpdatedAt"}
                /\ projects[call.id].NginxRaw = call.req

\* The project with a service and a verbatim site was renamed, with a new
\* description and without domain.
C31_Witness ==
    /\ call.op = "UpdateProject"
    /\ call.err = ""
    /\ call.id = 1
    /\ {"Name", "Description", "Domain", "UpdatedAt"} \subseteq ChangedColumns(1)
    /\ projects[1].NginxRaw = "other site"
    /\ \E i \in DOMAIN services : services[i].ProjectID = 1

-----------------------------------------------------------------------------
(* internal/http/handlers.go: create, update and delete of services when
   every supervisor and file system call succeeds *)

AllOk == [stopOk |-> TRUE, disableOk |-> TRUE, removeOk |-> TRUE, reloadOk |-> TRUE]

\* handleServiceDetail, action "delete": uninstall the unit, delete the row.
HandleDeleteServiceAction(svcs, files, id) ==
    LET Uninstalled(u) ==
            [services |-> DeleteService(svcs, id), files |-> u.files, status |-> 303,
             trace |-> <<Step("UninstallService", u.err), Step("DeleteService", "")>>]
    IN  Uninstalled(UninstallService(files, ServiceName(svcs[id]), AllOk))

UIDeleteService(id) ==
    LET r == HandleDeleteServiceAction(services, unitFiles, id)
    IN  /\ ops < MaxOps
        /\ id \in DOMAIN services
        /\ services' = r.services
        /\ unitFiles' = r.files
        /\ call' = [op |-> "DeleteService", via |-> "ui", id |-> id, status |-> r.status,
                    trace |-> r.trace, before |-> services[id]]
        /\ ops' = ops + 1
        /\ UNCHANGED <<projects, nextID, dirs, siteVars, dbVars, procVars>>

NextLifecycle ==
    \/ \E req \in CreateRequests : APICreateService(req, "none")
    \/ \E req \in CreateRequests : UICreateService(req, TRUE, "none")
    \/ \E id \in DOMAIN services, req \in UpdateRequests : APIUpdateService(id, req, "none")
    \/ \E id \in DOMAIN services, form \in UpdateForms : UIUpdateService(id, form, "none", TRUE)
    \/ \E id \in DOMAIN services : UIDeleteService(id)

SpecLifecycle == Init /\ [][NextLifecycle]_vars

\* The path is the unit of the current name of a stored service.
UnitOfStoredService(path) == \E i \in DOMAIN services : path = ServicePath(services[i])

Renamed == Updated /\ call.before.Name # services[call.id].Name

\* C32: after any sequence of create, update and delete service requests
\* whose supervisor and file system calls all succeed, every unit file on
\* disk is the unit of the current name of a stored service; after a rename
\* the unit file under the old name is gone.
C32_NoOrphanUnitAfterRename ==
    /\ \A path \in DOMAIN unitFiles : UnitOfStoredService(path)
    /\ Renamed => ServicePath(call.before) \notin DOMAIN unitFiles

-----------------------------------------------------------------------------
(* internal/http/handlers.go: DELETE /api/projects/{id} served while
   POST /api/services is served *)

MaxRaceRequests == 3

\* A request goroutine that is not serving.
NoRequest == [pc |-> "idle"]

raceOther == <<nextID, dirs, siteVars, dbVars, procVars>>

InitRace ==
    /\ mgr = NewManager
    /\ siteFiles = NoFiles
    /\ unitFiles = NoFiles
    /\ dirs = {}
    /\ projects = [id \in 1..MaxProjectID |-> ProjectRow(id)]
    /\ services = NoFiles
    /\ nextID = 1
    /\ call = [op |-> "DeleteWhileCreate", del |-> NoRequest, cre |-> NoRequest]
    /\ ops = 0
    /\ StoreOpened
    /\ NoProcess

\* handleAPIProject: GetProject reads the project with its services.
DeleteGetProject(id) ==
    /\ ops < MaxRaceRequests
    /\ call.del.pc = "idle"
    /\ id \in DOMAIN projects
    /\ call' = [call EXCEPT !.del = [pc |-> "uninstall", id |-> id,
                                     children |-> ListServicesByProject(services, id)]]
    /\ ops' = ops + 1
    /\ UNCHANGED <<projects, services, unitFiles, raceOther>>

\* The loop over project.Services: UninstallService of the next child.
DeleteUninstallChild ==
    /\ call.del.pc = "uninstall"
    /\ call.del.children # <<>>
    /\ unitFiles' = UninstallService(unitFiles, ServiceName(Head(call.del.children)),
                                     AllOk).files
    /\ call' = [call EXCEPT !.del.children = Tail(@)]
    /\ UNCHANGED <<projects, services, ops, raceOther>>

\* store.DeleteProject, with the cascade, and the 204 answer.
DeleteDeleteProject ==
    /\ call.del.pc = "uninstall"
    /\ call.del.children = <<>>
    /\ projects' = DeleteProject(projects, services, call.del.id).projects
    /\ services' = DeleteProject(projects, services, call.del.id).services
    /\ call' = [call EXCEPT !.del = [pc |-> "idle", id |-> call.del.id, status |-> 204]]
    /\ UNCHANGED <<unitFiles, ops, raceOther>>

\* handleAPIServices, POST: store.CreateService; an error is answered 500.
CreateStore(req) ==
    LET Stored(c) ==
            /\ services' = c.services
            /\ nextID' = c.nextID
            /\ call' = [call EXCEPT !.cre =
                           IF c.err # "" THEN [pc |-> "idle", req |-> req, status |-> 500]
                           ELSE [pc |-> "install", req |-> req, service |-> c.services[nextID]]]
    IN  /\ ops < MaxRaceRequests
        /\ call.cre.pc = "idle"
        /\ Stored(CreateService(projects, services, nextID, req))
        /\ ops' = ops + 1
        /\ UNCHANGED <<projects, unitFiles, dirs, siteVars, dbVars, procVars>>

\* InstallService of the record created, and the 201 answer.
CreateInstall ==
    LET Installed(inst) ==
            /\ unitFiles' = inst.files
            /\ dirs' = inst.dirs
    IN  /\ call.cre.pc = "install"
        /\ Installed(InstallService(unitFiles, dirs, call.cre.service, "none"))
        /\ call' = [call EXCEPT !.cre = [pc |-> "idle", req |-> call.cre.req, status |-> 201]]
        /\ UNCHANGED <<projects, services, nextID, ops, siteVars, dbVars, procVars>>

NextRace ==
    \/ \E id \in 1..MaxProjectID : DeleteGetProject(id)
    \/ DeleteUninstallChild
    \/ DeleteDeleteProject
    \/ \E req \in CreateRequests : CreateStore(req)
    \/ CreateInstall

SpecRace == InitRace /\ [][NextRace]_vars

BothCompleted ==
    /\ call.op = "DeleteWhileCreate"
    /\ call.del.pc = "idle" /\ call.cre.pc = "idle"
    /\ "status" \in DOMAIN call.del /\ "status" \in DOMAIN call.cre

\* C33: once a delete of a project and a create of a service have both
\* completed, in whatever interleaving, every unit file on disk is the unit
\* of a service whose row is in the store.
C33_NoUnitSurvivesCascade ==
    BothCompleted => \A path \in DOMAIN unitFiles : UnitOfStoredService(path)

-----------------------------------------------------------------------------
(* The rollback of InstallSite over an installed site *)

\* The test failed for a project whose site file was on disk, left by the
\* successful InstallSite that came before this call.
TestFailedOverInstalled ==
    /\ TestFailed
    /\ call.reinstall
    /\ SiteConfigPath(mgr, call.project) \in DOMAIN call.before

\* C35: when InstallSite fails the configuration test for a project whose
\* site file was installed before, the files after the call are the files
\* before the call.
C35_RollbackRestores == TestFailedOverInstalled => siteFiles = call.before

-----------------------------------------------------------------------------
(* internal/nginx/manager.go: InstallSite called for two projects at once *)

Installers == {"A", "B"}
MaxInstalls == 3

\* What nginx -t makes of one site text: the text "bad site" does not parse.
ValidSite(config) == config # "bad site"

\* nginx -t over what is on disk now: nginx includes the files of conf.d, or
\* the targets of the links of sites-enabled; each must exist and parse.
TestConfig(m, files) ==
    \A path \in DOMAIN files :
        IF m.sitesEnabledDir = ""
        THEN PathDir(path) = m.sitesAvailableDir => ValidSite(files[path])
        ELSE PathDir(path) = m.sitesEnabledDir =>
                /\ files[path].symlink \in DOMAIN files
                /\ ValidSite(files[files[path].symlink])

\* The projects installed, each with a verbatim site: A's parses or not,
\* B's parses.
RaceProjects ==
    [A |-> { [ID |-> 1, Name |-> <<"a", "p", "i">>, Domain |-> "", NginxRaw |-> raw,
              Services |-> <<>>] : raw \in {"raw site", "bad site"} },
     B |-> { [ID |-> 2, Name |-> <<"w", "e", "b">>, Domain |-> "app.example", NginxRaw |-> raw,
              Services |-> <<[Name |-> "web", Port |-> 8080]>>] :
              raw \in {"raw site", "other site"} }]

siteRaceOther == <<unitVars, storeVars, dbVars, procVars>>

InitSiteRace ==
    /\ mgr \in {ConfigureDirs(distro) : distro \in Distros}
    /\ siteFiles = NoFiles
    /\ unitFiles = NoFiles
    /\ dirs = {}
    /\ projects = NoFiles
    /\ services = NoFiles
    /\ nextID = 1
    /\ call = [op |-> "ParallelInstallSite", inst |-> [g \in Installers |-> [pc |-> "idle"]]]
    /\ ops = 0
    /\ StoreOpened
    /\ NoProcess

EnabledPath(project) == PathJoin(mgr.sitesEnabledDir, PathBase(SiteConfigPath(mgr, project)))

\* One step of the call of g: its position afterwards and the files.
SiteStep(g, c, files) ==
    /\ call' = [call EXCEPT !.inst[g] = c]
    /\ siteFiles' = files
    /\ UNCHANGED <<mgr, siteRaceOther>>

\* GenerateSiteConfig, MkdirAll and WriteFile.
SiteWrite(g, project) ==
    /\ ops < MaxInstalls
    /\ call.inst[g].pc = "idle"
    /\ GenerateSiteConfig(project).err = ""
    /\ ops' = ops + 1
    /\ SiteStep(g, [pc |-> IF mgr.sitesEnabledDir # "" THEN "symlink" ELSE "test",
                    project |-> project],
                WriteFile(siteFiles, SiteConfigPath(mgr, project),
                          GenerateSiteConfig(project).config))

\* os.Remove(enabledPath) and os.Symlink(configPath, enabledPath)
SiteSymlink(g) ==
    /\ call.inst[g].pc = "symlink"
    /\ UNCHANGED ops
    /\ SiteStep(g, [call.inst[g] EXCEPT !.pc = "test"],
                Symlink(RemoveFile(siteFiles, EnabledPath(call.inst[g].project)),
                        SiteConfigPath(mgr, call.inst[g].project),
                        EnabledPath(call.inst[g].project)))

\* m.TestConfig(ctx)
SiteTest(g) ==
    /\ call.inst[g].pc = "test"
    /\ UNCHANGED ops
    /\ SiteStep(g, [call.inst[g] EXCEPT !.pc = IF TestConfig(mgr, siteFiles) THEN "reload"
                                               ELSE "rollback"],
                siteFiles)

\* os.Remove(configPath) and the error returned.
SiteRollback(g) ==
    /\ call.inst[g].pc = "rollback"
    /\ UNCHANGED ops
    /\ SiteStep(g, [pc |-> "idle", project |-> call.inst[g].project,
                    err |-> "nginx config test failed"],
                RollbackSite(siteFiles, SiteConfigPath(mgr, call.inst[g].project)))

\* m.Reload(ctx), succeeding.
SiteReload(g) ==
    /\ call.inst[g].pc = "reload"
    /\ UNCHANGED ops
    /\ SiteStep(g, [pc |-> "idle", project |-> call.inst[g].project, err |-> ""], siteFiles)

NextSiteRace ==
    \/ \E g \in Installers : \E project \in RaceProjects[g] : SiteWrite(g, project)
    \/ \E g \in Installers : SiteSymlink(g)
    \/ \E g \in Installers : SiteTest(g)
    \/ \E g \in Installers : SiteRollback(g)
    \/ \E g \in Installers : SiteReload(g)

SpecSiteRace == InitSiteRace /\ [][NextSiteRace]_vars

InstallSiteDone(g) ==
    /\ call.op = "ParallelInstallSite"
    /\ call.inst[g].pc = "idle"
    /\ "err" \in DOMAIN call.inst[g]

\* C34: in every interleaving of InstallSite(A) and InstallSite(B), B's
\* call succeeds and leaves B's site file installed when the configuration
\* generated for B is valid on its own.
C34_InstallSitesIndependent ==
    (/\ InstallSiteDone("B")
     /\ ValidSite(GenerateSiteConfig(call.inst["B"].project).config)) =>
        /\ call.inst["B"].err = ""
        /\ SiteExists(mgr, siteFiles, call.inst["B"].project)

-----------------------------------------------------------------------------
(* The CPU share when the counter went back *)

\* The reading of the i-th unit is below the cached one: the counter was
\* reset, or the field was missing and parsed as 0.
CounterWentBack(i) ==
    /\ Observed(i)
    /\ call.names[i] \in DOMAIN call.before
    /\ call.readings[i].ns < call.before[call.names[i]].lastNS

\* C36: when the cumulative CPU time read for a unit is smaller than the
\* cached one, GetStats reports the share 0 for that unit.
C36_NoNegativeDelta ==
    GetStatsReturned =>
        \A i \in 1..Len(call.names) :
            CounterWentBack(i) => call.stats[call.names[i]].CPUUsage = ZeroPercent

-----------------------------------------------------------------------------
(* UninstallSite after the directory layout changed *)

\* The last three calls: InstallSite of a project succeeded, Configure
\* changed the directories, UninstallSite of the project succeeded.
RemovedAfterLayoutChange ==
    /\ call.op = "UninstallSite"
    /\ call.err = ""
    /\ call.moved

\* C37: after InstallSite of a project succeeded, the distro setting changed
\* the layout and UninstallSite of the project succeeded, no site file and
\* no symlink of the project is left in any site directory.
C37_RemovalSurvivesLayoutChange ==
    RemovedAfterLayoutChange =>
        \A path \in DOMAIN siteFiles : PathBase(path) # SiteFileName(call.project)

-----------------------------------------------------------------------------
(* internal/http/handlers.go: the site of a project deployed, removed,
   and the project renamed and deleted; every external call succeeds *)

MaxDeployOps == 3

\* A project without domain whose verbatim site was saved, and a project
\* with a domain.
DeployProjects ==
    [i \in 1..2 |-> IF i = 1 THEN [ProjectRow(1) EXCEPT !.Domain = "", !.NginxRaw = "raw site"]
                    ELSE ProjectRow(2)]

deployOther == <<unitVars, nextID, dbVars, procVars>>

InitDeploy ==
    /\ mgr = NewManager
    /\ siteFiles = NoFiles
    /\ unitFiles = NoFiles
    /\ dirs = {}
    /\ projects = DeployProjects
    /\ services = NoFiles
    /\ nextID = 1
    /\ call = NoCall
    /\ ops = 0
    /\ StoreOpened
    /\ NoProcess

\* handleAPINginx, action deploy: a project without domain is answered 400,
\* else InstallSite.
HandleNginxDeploy(m, files, project) ==
    LET Installed(inst) ==
            [files |-> inst.files, status |-> IF inst.err # "" THEN 500 ELSE 200,
             trace |-> <<Step("InstallSite", inst.err)>>]
    IN  IF project.Domain = ""
        THEN [files |-> files, status |-> 400, trace |-> <<>>]
        ELSE Installed(InstallSite(m, files, project, "none"))

\* handleAPINginx, action remove: UninstallSite.
HandleNginxRemove(m, files, project) ==
    LET Removed(u) ==
            [files |-> u.files, status |-> IF u.err # "" THEN 500 ELSE 200,
             trace |-> <<Step("UninstallSite", u.err)>>]
    IN  Removed(UninstallSite(m, files, project, "none"))

\* The effect of a request to /api/nginx/{id}/{action} answered with r.
NginxReturns(action, id, r) ==
    /\ siteFiles' = r.files
    /\ call' = [op |-> action, id |-> id, project |-> GetProject(projects, services, id),
                status |-> r.status, trace |-> r.trace, before |-> siteFiles]
    /\ ops' = ops + 1
    /\ UNCHANGED <<mgr, projects, services, deployOther>>

DeploySite(id) ==
    /\ ops < MaxDeployOps
    /\ id \in DOMAIN projects
    /\ NginxReturns("DeploySite", id,
                    HandleNginxDeploy(mgr, siteFiles, GetProject(projects, services, id)))

RemoveSite(id) ==
    /\ ops < MaxDeployOps
    /\ id \in DOMAIN projects
    /\ NginxReturns("RemoveSite", id,
                    HandleNginxRemove(mgr, siteFiles, GetProject(projects, services, id)))

\* handleAPIProject, PUT: UpdateProject; an error is answered 500.
RenameProject(id, req) ==
    LET Stored(u) ==
            /\ projects' = u.projects
            /\ call' = [op |-> "UpdateProject", id |-> id, req |-> req,
                        status |-> IF u.err # "" THEN 500 ELSE 200, before |-> siteFiles]
    IN  /\ ops < MaxDeployOps
        /\ id \in DOMAIN projects
        /\ Stored(UpdateProject(projects, id, req))
        /\ ops' = ops + 1
        /\ UNCHANGED <<mgr, siteFiles, services, deployOther>>

\* handleAPIProject, DELETE: the units of the children, then DeleteProject.
DeleteDeployed(id) ==
    LET Deleted(r) ==
            /\ projects' = r.projects
            /\ services' = r.services
            /\ unitFiles' = r.files
            /\ call' = [op |-> "DeleteProject", id |-> id, status |-> r.status,
                        trace |-> r.trace, before |-> siteFiles]
    IN  /\ ops < MaxDeployOps
        /\ id \in DOMAIN projects
        /\ Deleted(HandleDeleteProject(projects, services, unitFiles, id, <<>>, 204))
        /\ ops' = ops + 1
        /\ UNCHANGED <<mgr, siteFiles, dirs, nextID, dbVars, procVars>>

NextDeploy ==
    \/ \E id \in 1..2 : DeploySite(id)
    \/ \E id \in 1..2 : RemoveSite(id)
    \/ \E id \in 1..2, req \in {r \in ProjectUpdates : r.Description = ""} :
          RenameProject(id, req)
    \/ \E id \in 1..2 : DeleteDeployed(id)

SpecDeploy == InitDeploy /\ [][NextDeploy]_vars

\* The site files on disk that carry the id of the project in their name.
SiteFilesOf(id) ==
    {path \in DOMAIN siteFiles :
        SubSeq(PathBase(path), 1, 2 + Len(FormatInt(id)))
            = <<"servio-">> \o FormatInt(id) \o <<"-">>}

\* C38: after a project is deleted, and after the site of a project is
\* removed with UninstallSite, no site file of that project id is on disk.
C38_NoOrphanSite ==
    /\ (call.op = "DeleteProject" /\ call.status = 204) => SiteFilesOf(call.id) = {}
    /\ (call.op = "RemoveSite" /\ call.status = 200) => SiteFilesOf(call.id) = {}


\* A deploy request for a project that has a verbatim site and no domain.
DeployOfRawWithoutDomain ==
    /\ call.op = "DeploySite"
    /\ call.project.NginxRaw # ""
    /\ call.project.Domain = ""

\* C40: a deploy request for a project with a non-empty nginx_raw and an
\* empty domain installs the site with nginx_raw as its content.
C40_DeployHonoursRaw ==
    DeployOfRawWithoutDomain =>
        /\ call.status = 200
        /\ SiteConfigPath(mgr, call.project) \in DOMAIN siteFiles
        /\ siteFiles[SiteConfigPath(mgr, call.project)] = call.project.NginxRaw

-----------------------------------------------------------------------------
(* internal/systemd/logs.go and internal/http/handlers.go: the lines of the
   journal from the subprocess to the frames of the response *)

\* The lines of the journal are told apart by their number modulo LineLabels.
LineLabels == 3

\* fmt.Fprintf(w, "data: %s\n\n", line)
Frame(line) == <<"data: ", line, "\n\n">>

\* The line of the journal numbered n; long: longer than the buffer of the scanner
\* (bufio.MaxScanTokenSize).
JournalLine(n, long) == [text |-> n % LineLabels, long |-> long]

ChanSendNewestFirst(chan, line) == <<line>> \o chan

\* logChan <- scanner.Text()
ChanSend(chan, line) == Append(chan, line)

\* The stream as StreamLogs returns it, with the lines on their way: written
\* by journalctl, in the pipe, held by the scanner, in the channel; of the
\* frames written to the response their number (modulo LineLabels), the last
\* one, and whether each was the frame of the line after the one before.
StartedDelivery ==
    [pc |-> "streaming", ctx |-> "live", proc |-> "running", reaped |-> FALSE,
     written |-> 0, long |-> FALSE, pipe |-> <<>>, text |-> <<>>, chan |-> <<>>,
     closed |-> 0, prod |-> "scan", cons |-> "select",
     frames |-> 0, last |-> <<>>, inOrder |-> TRUE]

InitDelivery ==
    /\ mgr = NewManager
    /\ siteFiles = NoFiles
    /\ unitFiles = NoFiles
    /\ dirs = {}
    /\ projects = NoFiles
    /\ services = NoFiles
    /\ nextID = 1
    /\ call = NoCall
    /\ ops = 0
    /\ StoreOpened
    /\ NoProcess

\* handleLogStream calls StreamLogs; on an error it writes the error event
\* and returns, and the deferred cancel() runs.
HandleLogStream(started) ==
    /\ stream = NoStream
    /\ stream' = IF started THEN StartedDelivery ELSE FailedStream
    /\ UNCHANGED streamOther

\* journalctl writes its next line to its standard output.
JournalWriteLine(long) ==
    /\ Streaming
    /\ stream.proc = "running"
    /\ Len(stream.pipe) < MaxPipeLines
    /\ stream' = [stream EXCEPT !.written = (@ + 1) % LineLabels,
                                !.long = @ \/ long,
                                !.pipe = Append(@, JournalLine(stream.written, long))]
    /\ UNCHANGED streamOther

\* journalctl ends on its own.
JournalEnd ==
    /\ Streaming
    /\ stream.proc = "running"
    /\ stream' = [stream EXCEPT !.proc = "exited"]
    /\ UNCHANGED streamOther

\* The goroutine os/exec starts for a command with a context.
KillOnDone ==
    /\ Streaming
    /\ WatchCtxKills(stream)
    /\ stream' = [stream EXCEPT !.proc = "killed"]
    /\ UNCHANGED streamOther

\* scanner.Scan(): the next line; false at the end of the output and on a
\* line longer than the buffer.
ScanLine ==
    /\ Streaming
    /\ stream.prod = "scan"
    /\ \/ /\ stream.pipe # <<>>
          /\ ~Head(stream.pipe).long
          /\ stream' = [stream EXCEPT !.pipe = Tail(@), !.text = <<Head(stream.pipe).text>>,
                                      !.prod = "select"]
       \/ /\ stream.pipe # <<>>
          /\ Head(stream.pipe).long
          /\ stream' = [stream EXCEPT !.pipe = Tail(@), !.prod = "wait"]
       \/ /\ stream.pipe = <<>>
          /\ stream.proc # "running"
          /\ stream' = [stream EXCEPT !.prod = "wait"]
    /\ UNCHANGED streamOther

\* select { case <-ctx.Done(): return; case logChan <- scanner.Text(): }
SelectSend ==
    /\ Streaming
    /\ stream.prod = "select"
    /\ \/ /\ stream.ctx = "cancelled"
          /\ stream' = [stream EXCEPT !.text = <<>>, !.prod = "wait"]
       \/ /\ Len(stream.chan) < logChanCap
          /\ stream' = [stream EXCEPT !.chan = ChanSend(@, Head(stream.text)),
                                      !.text = <<>>, !.prod = "scan"]
    /\ UNCHANGED streamOther

\* defer cmd.Wait()
WaitCmd ==
    /\ Streaming
    /\ stream.prod = "wait"
    /\ stream.proc # "running"
    /\ stream' = [stream EXCEPT !.reaped = TRUE, !.prod = "close"]
    /\ UNCHANGED streamOther

\* defer close(logChan)
CloseChan ==
    /\ Streaming
    /\ stream.prod = "close"
    /\ stream' = [stream EXCEPT !.closed = @ + 1, !.prod = "done"]
    /\ UNCHANGED streamOther

\* handleLogStream: case line, ok := <-logChan with a line; the frame is
\* written and flushed.
WriteFrame ==
    /\ Streaming
    /\ stream.cons = "select"
    /\ stream.chan # <<>>
    /\ stream' = [stream EXCEPT !.chan = Tail(@),
                                !.frames = (@ + 1) % LineLabels,
                                !.last = Frame(Head(stream.chan)),
                                !.inOrder = @ /\ Frame(Head(stream.chan)) = Frame(stream.frames)]
    /\ UNCHANGED streamOther

\* handleLogStream returns, on the closed and drained channel or on its
\* context; the deferred cancel() runs.
HandlerReturn ==
    /\ Streaming
    /\ stream.cons = "select"
    /\ \/ stream.ctx = "cancelled"
       \/ stream.closed > 0 /\ stream.chan = <<>>
    /\ stream' = [stream EXCEPT !.cons = "done", !.ctx = "cancelled"]
    /\ UNCHANGED streamOther

\* The client goes away: the request context is cancelled.
RequestDone ==
    /\ Streaming
    /\ stream.ctx = "live"
    /\ stream' = [stream EXCEPT !.ctx = "cancelled"]
    /\ UNCHANGED streamOther

NextDelivery ==
    \/ \E started \in BOOLEAN : HandleLogStream(started)
    \/ \E long \in BOOLEAN : JournalWriteLine(long)
    \/ JournalEnd
    \/ KillOnDone
    \/ ScanLine
    \/ SelectSend
    \/ WaitCmd
    \/ CloseChan
    \/ WriteFrame
    \/ HandlerReturn
    \/ RequestDone

\* The goroutines keep running: the producer, the watcher of os/exec and the
\* receive loop of the handler.  Nothing is assumed of journalctl or of the
\* client.
FairDelivery ==
    /\ WF_vars(KillOnDone)
    /\ WF_vars(ScanLine)
    /\ WF_vars(SelectSend)
    /\ WF_vars(WaitCmd)
    /\ WF_vars(CloseChan)
    /\ WF_vars(WriteFrame)
    /\ WF_vars(HandlerReturn)

SpecDelivery == InitDelivery /\ [][NextDelivery]_vars /\ FairDelivery

\* The lines between the subprocess and the response, oldest first.
InTransit ==
    stream.chan \o stream.text \o [i \in 1..Len(stream.pipe) |-> stream.pipe[i].text]

\* Every line written is a frame of the response or on its way to it: the
\* lines on their way are the ones after the last frame, in the order
\* written, up to the last line written.
NoLineLost ==
    /\ InTransit = [i \in 1..Len(InTransit) |-> (stream.frames + i - 1) % LineLabels]
    /\ stream.written = (stream.frames + Len(InTransit)) % LineLabels

Connected == Streaming /\ stream.ctx = "live"

HandlerReturned == Streaming /\ stream.cons = "done"

\* The line numbered k is the next to become a frame and is on its way.
NextFrameIs(k) == Connected /\ ~stream.long /\ stream.frames = k /\ InTransit # <<>>

====
